---- MODULE Spec2Model ----
(***************************************************************************)
(* Adaptive request scheduler of berlin-operator: the RequestQueue class   *)
(* of transportAPI.ts, the JavaScript interval timer that drives it, and   *)
(* the detail-fetch jobs (performTripRequest) it starts.                   *)
(*                                                                         *)
(* Time is discrete.  One time unit stands for 300 ms, so the base         *)
(* interval of 600 ms is 2 units and the default burst interval of 300 ms  *)
(* is 1 unit; backoff durations are drawn from 1..MaxDuration.             *)
(***************************************************************************)
EXTENDS Integers, Sequences, FiniteSets, TLC

\* ---- bounds of the model ------------------------------------------------
MaxTime == 3
MaxDuration == 2
MaxJobs == 3

\* ---- program constants --------------------------------------------------
\* null of a `number | null` field
Null == -1
\* new RequestQueue(600)
BaseInterval == 2
\* burst(intervalMs = 300, ...)
DefaultBurstInterval == 1
\* burst(..., durationMs = 60000) and backoff(durationMs = 10000), compressed
\* to the model's time scale
DefaultBurstDuration == 2
DefaultBackoff == 2

Durations == 1..MaxDuration
Statuses == {200, 304, 500, 503}

\* A job is a closure, opaque to the queue; n is the serial number of its
\* creation (its identity), src the method that put it into the queue.
NoJob == [n |-> 0, src |-> "none"]
MakeJob(n, src) == [n |-> n, src |-> src]

\* Handle returned by setInterval; null when no timer is set.
NoTimer == [created |-> Null, period |-> 0]

Range(f) == {f[i] : i \in DOMAIN f}

RECURSIVE Reverse(_)
Reverse(q) == IF q = <<>> THEN <<>> ELSE Append(Reverse(Tail(q)), Head(q))

VARIABLES
  queue, interval, timer, running,
  burstTimestamp, burstDuration, originalInterval, hasBurst,
  backoffTimestamp, backoffDuration,
  timers,      \* interval timers active in the runtime: [h, due]
  now,         \* Date.now()
  inflight,    \* number of fetches issued and not yet answered
  nextJob,     \* serial of the next closure to be created
  lastOp,      \* history: the operation of the last step
  sched,       \* history: the last setQueue call
  renewal      \* history: how the open backoff window replaced an earlier one

rqvars == <<queue, interval, timer, running, burstTimestamp, burstDuration,
            originalInterval, hasBurst, backoffTimestamp, backoffDuration, timers>>
vars == <<queue, interval, timer, running, burstTimestamp, burstDuration,
          originalInterval, hasBurst, backoffTimestamp, backoffDuration, timers,
          now, inflight, nextJob, lastOp, sched, renewal>>

\* The Trip engine and the driver's trip index have state of their own; the
\* scheduler leaves it alone.
VARIABLES
  payload,     \* the detailed trip data a response carries
  trip,        \* one Trip object
  pos,         \* history: the last position query, [at, result]
  trips,       \* the driver's index: trip id -> Trip object (0: no entry)
  heap,        \* the Trip objects created so far
  requests,    \* detail requests waiting in the queue or in flight
  fetches,     \* the fetches in flight, counted by the trip id they ask for
  calls        \* history: the trip callbacks run by the last step

\* The functions without state of their own are applied to an input.
VARIABLES
  input,       \* the arguments of the last call
  output       \* what the call returned

tripvars == <<payload, trip, pos>>
indexvars == <<trips, heap, requests>>
fetchvars == <<fetches, calls>>
purevars == <<input, output>>

\* A fetchAllTrips call has its requests in flight and counts them.
VARIABLES
  listing      \* the listing requests of one fetchAllTrips call and its callbacks

listvars == <<listing>>
appvars == <<tripvars, indexvars, fetchvars, purevars, listvars>>

\* ---- the Trip engine: values ----------------------------------------------
\* Instants are milliseconds.  A stop time is a number, null or undefined.

Undef == -2

\* a number other than 0 is truthy; null and undefined are not
truthy(v) == v > 0

\* "A stop takes at least 15 seconds": half of it on either side
StopHalf == 7500

NoPayload == [id |-> 0, polyline |-> <<>>, stopovers |-> <<>>]

\* new Trip(preliminaryData)
NewTrip(id) ==
  [data |-> [id |-> id, detailed |-> FALSE], detailsTimestamp |-> Null, stops |-> <<>>]

NoPoint == [x |-> Null, y |-> Null]
Position(kind, from, to, point) == [kind |-> kind, from |-> from, to |-> to, point |-> point]
NoPos == [at |-> Null, res |-> Position("none", 0, 0, NoPoint)]

TripIdle ==
  /\ payload = NoPayload
  /\ trip = NewTrip(0)
  /\ pos = NoPos

\* const trips = new Map(), as a function of the trip ids
TripIds == {1, 2}
NoTrips == [id \in TripIds |-> 0]

IndexIdle ==
  /\ trips = NoTrips
  /\ heap = <<>>
  /\ requests = {}

FetchIdle ==
  /\ fetches = [id \in TripIds |-> 0]
  /\ calls = <<>>

\* no function has been called
NoCall == [fn |-> "none"]
PureIdle ==
  /\ input = NoCall
  /\ output = NoCall

\* const numRequests = 7: one listing request per product
numRequests == 7

\* fetchAllTrips has not been called
NoListing ==
  [requests |-> [i \in 1..numRequests |-> "idle"],
   received |-> [i \in 1..numRequests |-> 0],
   numFinishedRequests |-> 0, tripCalls |-> 0, finishedCalls |-> 0]
ListIdle == listing = NoListing

AppIdle == TripIdle /\ IndexIdle /\ FetchIdle /\ PureIdle /\ ListIdle

\* The RequestQueue instance together with the runtime's timers, as a value
\* the methods below transform.
Self ==
  [queue |-> queue, interval |-> interval, timer |-> timer, running |-> running,
   burstTimestamp |-> burstTimestamp, burstDuration |-> burstDuration,
   originalInterval |-> originalInterval, hasBurst |-> hasBurst,
   backoffTimestamp |-> backoffTimestamp, backoffDuration |-> backoffDuration,
   timers |-> timers]

Becomes(s) ==
  /\ queue' = s.queue
  /\ interval' = s.interval
  /\ timer' = s.timer
  /\ running' = s.running
  /\ burstTimestamp' = s.burstTimestamp
  /\ burstDuration' = s.burstDuration
  /\ originalInterval' = s.originalInterval
  /\ hasBurst' = s.hasBurst
  /\ backoffTimestamp' = s.backoffTimestamp
  /\ backoffDuration' = s.backoffDuration
  /\ timers' = s.timers

\* ---- RequestQueue methods -----------------------------------------------

\* setInterval(callback, period) called at time t
SetIntervalTimer(t, period) ==
  [h |-> [created |-> t, period |-> period], due |-> t + period]

\* clearInterval(handle)
ClearInterval(ts, handle) == {x \in ts : x.h # handle}

start(s, t) ==
  IF s.running THEN s
  ELSE LET x == SetIntervalTimer(t, s.interval)
       IN [s EXCEPT !.running = TRUE, !.timer = x.h, !.timers = s.timers \cup {x}]

\* stop() without the clearInterval
stopNoClear(s) == [s EXCEPT !.timer = NoTimer, !.running = FALSE]
stop(s) ==
  [s EXCEPT !.timers = IF s.timer # NoTimer THEN ClearInterval(s.timers, s.timer)
                       ELSE s.timers,
            !.timer = NoTimer,
            !.running = FALSE]

updateInterval(s, intervalMs, t) ==
  start([stop(s) EXCEPT !.interval = intervalMs], t)

setQueueNoReverse(s, jobs, t) == start([s EXCEPT !.queue = jobs], t)
setQueueKeepOld(s, jobs, t) == start([s EXCEPT !.queue = s.queue \o Reverse(jobs)], t)
setQueue(s, jobs, t) == start([s EXCEPT !.queue = Reverse(jobs)], t)

addUnshift(s, job, t) == start([s EXCEPT !.queue = <<job>> \o s.queue], t)
add(s, job, t) == start([s EXCEPT !.queue = Append(s.queue, job)], t)

burstNoGuard(s, intervalMs, durationMs, t) ==
  updateInterval([s EXCEPT !.burstTimestamp = t,
                           !.burstDuration = durationMs,
                           !.originalInterval = s.interval,
                           !.hasBurst = FALSE], intervalMs, t)
burst(s, intervalMs, durationMs, t) ==
  IF ~s.hasBurst THEN s
  ELSE updateInterval([s EXCEPT !.burstTimestamp = t,
                                !.burstDuration = durationMs,
                                !.originalInterval = s.interval,
                                !.hasBurst = FALSE], intervalMs, t)

backoffKeepBurst(s, durationMs, t) ==
  [s EXCEPT !.backoffDuration = durationMs, !.backoffTimestamp = t]
backoffOnlyExtend(s, durationMs, t) ==
  LET c == IF s.burstTimestamp # Null
           THEN updateInterval([s EXCEPT !.burstTimestamp = Null], s.originalInterval, t)
           ELSE s
  IN IF c.backoffTimestamp # Null /\ c.backoffTimestamp + c.backoffDuration > t + durationMs
     THEN c
     ELSE [c EXCEPT !.backoffDuration = durationMs, !.backoffTimestamp = t]
backoff(s, durationMs, t) ==
  LET c == IF s.burstTimestamp # Null
           THEN updateInterval([s EXCEPT !.burstTimestamp = Null], s.originalInterval, t)
           ELSE s
  IN [c EXCEPT !.backoffDuration = durationMs, !.backoffTimestamp = t]

\* ---- the timer callback, in the order of its statements -----------------

\* if (burstTimestamp !== null && Date.now() - burstTimestamp > burstDuration)
burstExpiryKeepInterval(s, t) ==
  IF s.burstTimestamp # Null /\ t - s.burstTimestamp > s.burstDuration
  THEN [s EXCEPT !.burstTimestamp = Null]
  ELSE s
burstExpiry(s, t) ==
  IF s.burstTimestamp # Null /\ t - s.burstTimestamp > s.burstDuration
  THEN updateInterval([s EXCEPT !.burstTimestamp = Null], s.originalInterval, t)
  ELSE s

\* Date.now() - backoffTimestamp > backoffDuration
backoffElapsedEarly(s, t) == t - s.backoffTimestamp >= s.backoffDuration
backoffElapsed(s, t) == t - s.backoffTimestamp > s.backoffDuration

\* `return; // Back off`
backsOff(s, t) == s.backoffTimestamp # Null /\ ~backoffElapsed(s, t)

backoffCheck(s, t) ==
  IF s.backoffTimestamp # Null /\ backoffElapsed(s, t)
  THEN [s EXCEPT !.backoffTimestamp = Null]
  ELSE s

\* if (queue.length === 0) return;  const job = queue.pop()!;  job();
poppedDrain(q) == Reverse(q)
popped(q) == IF Len(q) = 0 THEN <<>> ELSE <<q[Len(q)]>>


\* ---- history records ----------------------------------------------------

\* The operation of the last step: its name, the job a tick started, and a
\* note on the state the operation met: for a tick that closed a backoff
\* window how that window had been set, for a burst call whether a burst was
\* active, for a backoff call whether it cancelled a burst.
Op(name, job, note) == [op |-> name, job |-> job, note |-> note]

\* The last setQueue call: base is the serial of the first job of its list
\* (every job created earlier has a smaller serial), len the length of the
\* list, discarded whether the call threw waiting jobs away.  While clean, no
\* add, setQueue or backoff has happened since, and ran counts the ticks
\* since the call that were not skipped by a backoff window.
NoReplace == [base |-> 0, len |-> 0, ran |-> 0, clean |-> FALSE, discarded |-> FALSE]
Disturbed == [sched EXCEPT !.len = 0, !.ran = 0, !.clean = FALSE]

\* A backoff window is open at time t: backoff was called and no more than
\* its duration has passed since.
WindowOpen(t) == backoffTimestamp # Null /\ t - backoffTimestamp <= backoffDuration

\* How the window asked for by backoff(durationMs) at time t relates to the
\* window that is open at the call.
Renewal(durationMs, t) ==
  IF ~WindowOpen(t) THEN "fresh"
  ELSE IF t + durationMs < backoffTimestamp + backoffDuration THEN "sooner"
  ELSE IF t + durationMs > backoffTimestamp + backoffDuration THEN "later"
  ELSE "same"

Min(a, b) == IF a <= b THEN a ELSE b

\* ---- initial state: new RequestQueue(600), nothing scheduled ------------

SchedulerInit ==
  /\ queue = <<>>
  /\ interval = BaseInterval
  /\ timer = NoTimer
  /\ running = FALSE
  /\ burstTimestamp = Null
  /\ burstDuration = 0
  /\ originalInterval = 0
  /\ hasBurst = TRUE
  /\ backoffTimestamp = Null
  /\ backoffDuration = 0
  /\ timers = {}
  /\ now = 0
  /\ inflight = 0
  /\ nextJob = 1
  /\ lastOp = Op("init", NoJob, "none")
  /\ sched = NoReplace
  /\ renewal = "none"

Init == SchedulerInit /\ AppIdle

\* ---- actions ------------------------------------------------------------

\* Time passes; a timer that is due fires before the clock moves on.
Elapse ==
  /\ now < MaxTime
  /\ \A x \in timers : x.due > now
  /\ now' = now + 1
  /\ lastOp' = Op("advance", NoJob, "none")
  /\ UNCHANGED <<rqvars, inflight, nextJob, sched, renewal>>

Advance == Elapse /\ UNCHANGED appvars

\* One firing of the interval timer: the callback passed to setInterval.
\* A started job issues its fetch (performTripRequest up to the await).
Fire ==
  \E x \in timers :
    /\ x.due = now
    /\ LET s0 == [Self EXCEPT !.timers = (timers \ {x}) \cup {[x EXCEPT !.due = now + x.h.period]}]
           s1 == burstExpiry(s0, now)
           skip == backsOff(s1, now)
           s2 == backoffCheck(s1, now)
           js == IF skip THEN <<>> ELSE popped(s2.queue)
           s3 == [s2 EXCEPT !.queue = SubSeq(s2.queue, 1, Len(s2.queue) - Len(js))]
           closes == s1.backoffTimestamp # Null /\ s2.backoffTimestamp = Null
       IN /\ Becomes(s3)
          /\ inflight' = inflight + Len(js)
          /\ lastOp' = Op("tick", IF js = <<>> THEN NoJob ELSE js[1],
                          IF closes THEN renewal ELSE "none")
          /\ renewal' = IF closes THEN "none" ELSE renewal
          /\ sched' = IF sched.clean /\ ~skip
                      THEN [sched EXCEPT !.ran = Min(sched.ran + 1, sched.len)]
                      ELSE sched
    /\ UNCHANGED <<now, nextJob>>

Tick == Fire /\ UNCHANGED appvars

\* updateRequestQueue(ids, cb): requestQueue.setQueue(ids.map(id => job)),
\* for a list of len ids
UpdateRequestQueue ==
  \E len \in 0..MaxJobs :
    /\ nextJob + len - 1 <= MaxJobs
    /\ LET jobs == [i \in 1..len |-> MakeJob(nextJob + i - 1, "set")]
       IN Becomes(setQueue(Self, jobs, now))
    /\ nextJob' = nextJob + len
    /\ sched' = [base |-> nextJob, len |-> len, ran |-> 0, clean |-> TRUE,
                 discarded |-> queue # <<>>]
    /\ lastOp' = Op("setQueue", NoJob, "none")
    /\ UNCHANGED <<now, inflight, renewal, appvars>>

\* fetchTripDetails(id, cb): requestQueue.add(job)
FetchTripDetails ==
  /\ nextJob <= MaxJobs
  /\ Becomes(add(Self, MakeJob(nextJob, "add"), now))
  /\ nextJob' = nextJob + 1
  /\ sched' = Disturbed
  /\ lastOp' = Op("add", NoJob, "none")
  /\ UNCHANGED <<now, inflight, renewal, appvars>>

\* burst(): requestQueue.burst(300, 60000), the one way the program calls it
BurstCall ==
  /\ Becomes(burst(Self, DefaultBurstInterval, DefaultBurstDuration, now))
  /\ lastOp' = Op("burst", NoJob, IF burstTimestamp # Null THEN "active" ELSE "idle")
  /\ UNCHANGED <<now, inflight, nextJob, sched, renewal, appvars>>

\* backoff(durationMs)
BackoffWith(d) ==
  /\ Becomes(backoff(Self, d, now))
  /\ renewal' = Renewal(d, now)
  /\ sched' = Disturbed
  /\ lastOp' = Op("backoff", NoJob, IF burstTimestamp # Null THEN "burst" ELSE "none")
  /\ UNCHANGED <<now, inflight, nextJob, appvars>>

BackoffCall == \E d \in Durations : BackoffWith(d)

\* The fetch of a started job is answered: the rest of performTripRequest.
\* Status 500 backs off and enqueues a new job for the same trip.
Respond ==
  \E status \in Statuses :
    /\ inflight > 0
    /\ status = 500 => nextJob <= MaxJobs
    /\ inflight' = inflight - 1
    /\ IF status = 500
       THEN /\ Becomes(add(backoff(Self, DefaultBackoff, now),
                           MakeJob(nextJob, "add"), now))
            /\ nextJob' = nextJob + 1
            /\ renewal' = Renewal(DefaultBackoff, now)
            /\ sched' = Disturbed
       ELSE UNCHANGED <<rqvars, nextJob, renewal, sched>>
    /\ lastOp' = Op("response", NoJob, "none")
    /\ UNCHANGED <<now, appvars>>

Next ==
  \/ Advance
  \/ Tick
  \/ UpdateRequestQueue
  \/ FetchTripDetails
  \/ BurstCall
  \/ BackoffCall
  \/ Respond

Spec == Init /\ [][Next]_vars


\* ---- properties ---------------------------------------------------------

IsTick == lastOp.op = "tick"
Started == lastOp.job
Waiting == Range(queue)

\* The job a tick is due to start when the list installed by the last
\* setQueue call is run undisturbed: the serial of the next list element,
\* 0 (no job) once the list is exhausted.
DueSerial == IF sched.ran < sched.len THEN sched.base + sched.ran ELSE 0

\* C1 as stated: after replaceQueue([a,b,c]) with no further enqueue,
\* replaceQueue or backoff, the ticks that follow start a, b, c in this
\* order, one job on each successive tick, and every later tick starts
\* nothing.
C1_AsStated ==
  [][(IsTick' /\ sched.clean) => Started'.n = DueSerial]_vars

\* C1 amended: as above, except that a tick inside a backoff window that is
\* still open starts nothing and leaves the queue alone; the ticks outside
\* the window start a, b, c in order, exactly one job per tick, and every
\* later tick starts nothing.
C1_OrderAfterReplace ==
  [][(IsTick' /\ sched.clean) =>
       IF WindowOpen(now)
       THEN Started' = NoJob /\ queue' = queue /\ inflight' = inflight
       ELSE /\ Started'.n = DueSerial
            /\ inflight' = inflight + (IF DueSerial = 0 THEN 0 ELSE 1)
            /\ Started' \notin Range(queue')]_vars

\* C1 witness: the third job of a three-job list has just been started on
\* the third tick that ran since the call.
C1_Witness ==
  /\ IsTick /\ sched.clean /\ sched.len = 3 /\ sched.ran = 3
  /\ Started.n = sched.base + 2

\* C2 as stated: enqueue appends to the back and enqueued jobs run FIFO, so
\* when a tick starts an enqueued job, no job that was created before it is
\* still waiting.
C2_AsStated ==
  (IsTick /\ Started.src = "add") => \A k \in Waiting : k.n > Started.n

\* C2 amended: enqueue puts the job at the head of the execution order and
\* enqueued jobs run last-in-first-out: when a tick starts an enqueued job,
\* every job still waiting was already waiting when it was enqueued; a job
\* of a replaceQueue list is started only when no enqueued job waits, and
\* before the later elements of its list.
C2_EnqueueIsNext ==
  (IsTick /\ Started # NoJob) =>
     \A k \in Waiting :
        /\ Started.src = "add" => k.n < Started.n
        /\ Started.src = "set" => k.src = "set" /\ k.n > Started.n

\* C2 witness: a tick started an enqueued job while an earlier enqueued job
\* and a job of the replaceQueue list are still waiting.
C2_Witness ==
  /\ IsTick /\ Started.src = "add"
  /\ \E k \in Waiting : k.src = "add"
  /\ \E k \in Waiting : k.src = "set"

\* C3: replaceQueue is a barrier: after the call no job that was waiting
\* before it (a job created before the call's list) waits or is started.
C3_ReplaceBarrier ==
  /\ \A k \in Waiting : k.n >= sched.base
  /\ (IsTick /\ Started # NoJob) => Started.n >= sched.base

\* C3 witness: a replaceQueue call discarded waiting jobs and a tick has
\* started a job since.
C3_Witness == IsTick /\ Started # NoJob /\ sched.discarded

\* C4: a tick inside an open backoff window starts no job and leaves the
\* queue's contents and order unchanged.
C4_BackoffSkipsTick ==
  [][(IsTick' /\ WindowOpen(now)) =>
       Started' = NoJob /\ queue' = queue /\ inflight' = inflight]_vars

\* C4 witness: a tick has just been skipped with jobs waiting.
C4_Witness == IsTick /\ WindowOpen(now) /\ queue # <<>> /\ Started = NoJob

\* C5 as stated: every burst call made while no burst is active switches
\* the interval to intervalMs, and the first tick after the duration has
\* elapsed reverts it to the base interval.
C5_AsStated ==
  [][/\ (lastOp'.op = "burst" /\ burstTimestamp = Null) =>
          interval' = DefaultBurstInterval /\ burstTimestamp' = now
     /\ (IsTick' /\ burstTimestamp # Null /\ now - burstTimestamp > burstDuration) =>
          interval' = BaseInterval /\ burstTimestamp' = Null]_vars

\* C6: a burst call while a burst is active changes nothing: interval,
\* burst start and duration, remembered base interval and the timer stay.
C6_BurstIdempotent ==
  [][(lastOp'.op = "burst" /\ burstTimestamp # Null) =>
       UNCHANGED <<interval, burstTimestamp, burstDuration, originalInterval,
                   timer, running, timers>>]_vars

\* C6 witness: burst has just been called during a burst started earlier.
C6_Witness ==
  lastOp.op = "burst" /\ lastOp.note = "active" /\ burstTimestamp # Null /\ burstTimestamp < now

\* C7: backoff during an active burst ends the burst at once: the interval
\* is the pre-burst base interval, no burst is active, a backoff window is
\* open and the queue is unchanged.
C7_BackoffCancelsBurst ==
  [][(lastOp'.op = "backoff" /\ burstTimestamp # Null) =>
       /\ interval' = originalInterval /\ interval' = BaseInterval
       /\ burstTimestamp' = Null
       /\ backoffTimestamp' = now /\ now - backoffTimestamp' <= backoffDuration'
       /\ queue' = queue
       /\ \A x \in timers' : x.h = timer' /\ x.h.period = BaseInterval]_vars

\* C7 witness: backoff has just cancelled a burst with jobs waiting.
C7_Witness == lastOp.op = "backoff" /\ lastOp.note = "burst" /\ queue # <<>>

\* C8: backoff(d2) at t2 while a window is open replaces it by one ending at
\* t2+d2: a tick at or before t2+d2 starts nothing, the first tick after it
\* clears backoff and starts the front job if there is one.
C8_BackoffRenewed ==
  [][/\ \A d \in Durations :
          (BackoffWith(d) /\ WindowOpen(now)) =>
             backoffTimestamp' = now /\ backoffDuration' = d
     /\ (IsTick' /\ renewal \in {"sooner", "later", "same"}) =>
          IF now <= backoffTimestamp + backoffDuration
          THEN Started' = NoJob /\ backoffTimestamp' = backoffTimestamp /\ queue' = queue
          ELSE /\ backoffTimestamp' = Null
               /\ queue # <<>> => /\ Started' = queue[Len(queue)]
                                  /\ queue' = SubSeq(queue, 1, Len(queue) - 1)
               /\ queue = <<>> => Started' = NoJob]_vars

\* C8 witness: the first tick after a window that a later backoff call
\* shortened has started a job.
C8_Witness == IsTick /\ lastOp.note = "sooner" /\ Started # NoJob

\* C9 as stated: a burst call during an open backoff window (no burst being
\* active) changes the interval to the burst interval, and no tick starts a
\* job until the window has elapsed.
C9_AsStated ==
  [][/\ (lastOp'.op = "burst" /\ WindowOpen(now) /\ burstTimestamp = Null) =>
          interval' = DefaultBurstInterval
     /\ (IsTick' /\ WindowOpen(now) /\ burstTimestamp # Null) => Started' = NoJob]_vars

\* C10 as stated: at most one detail-fetch job is started and not completed.
C10_AsStated == inflight <= 1

\* C10 amended: a job is started only by a tick and a tick starts at most
\* one job; the timer does not wait for the response, so a tick may start a
\* job while earlier jobs still await theirs.
C10_OneStartPerTick ==
  [][/\ inflight' <= inflight + 1
     /\ inflight' > inflight => IsTick' /\ Started' # NoJob]_vars

\* C10 witness: a tick has started a job while another is awaiting its
\* response.
C10_Witness == IsTick /\ Started # NoJob /\ inflight >= 2


\* the interval timers that are set and not cleared are exactly the one whose
\* handle this.timer holds, and it ticks at this.interval
OneTimer ==
  /\ Cardinality(timers) <= 1
  /\ running <=> timer # NoTimer
  /\ timer = NoTimer => timers = {}
  /\ timer # NoTimer => \A x \in timers : x.h = timer /\ x.h.period = interval
  /\ timer # NoTimer => timers # {}

\* C34: at most one interval timer is set at any time and running is true
\* exactly when this.timer holds a handle; a step that changes the interval
\* (stop, set interval, start) leaves exactly one timer, ticking at the new
\* interval, and the scheduler running.
C34_SingleTimer ==
  /\ []OneTimer
  /\ [][interval' # interval =>
          /\ running'
          /\ \E x \in timers' : timers' = {x} /\ x.h = timer' /\ x.h.period = interval'
                                 /\ x.h.created = now /\ x.due = now + interval'
       ]_vars

\* C34 witness: a tick has just ended a burst: the timer that fired was
\* cleared inside its own callback and a new one ticks at the base interval.
C34_Witness ==
  /\ IsTick /\ ~hasBurst /\ burstTimestamp = Null
  /\ interval = BaseInterval
  /\ running /\ Cardinality(timers) = 1
  /\ \A x \in timers : x.h.created = now /\ x.h.period = BaseInterval


\* C35: the interval is the base interval of the constructor or the interval
\* of the active burst: the base interval whenever no burst is active, the
\* burst's interval while one is, and never the 0 that originalInterval holds
\* before the first burst.
C35_IntervalKnown ==
  /\ interval \in {BaseInterval, DefaultBurstInterval}
  /\ burstTimestamp = Null => interval = BaseInterval
  /\ burstTimestamp # Null => interval = DefaultBurstInterval /\ originalInterval = BaseInterval
  /\ interval # 0

\* C35 witness: a burst has come and gone: a job waits, no burst is active
\* and the interval is the base interval again, restored from originalInterval.
C35_Witness ==
  /\ ~hasBurst /\ burstTimestamp = Null
  /\ originalInterval = BaseInterval /\ interval = BaseInterval
  /\ queue # <<>>
  /\ \A x \in timers : x.h.period = BaseInterval /\ x.h.created > 0


\* ==========================================================================
\* The Trip engine (class Trip): setDetailedData and getCurrentPositionDetailed
\* as functions of the payload and of Date.now().
\* ==========================================================================

\* a stop as the polyline walk creates it: its times are still undefined
\* nth and matched are history: the stop's place among the polyline's stops and
\* the stopovers (by index) whose times it was given.
NewStop(el, nth) ==
  [id |-> el.sid, point |-> el.point, segmentPoints |-> <<>>,
   arrival |-> Undef, departure |-> Undef, cancelled |-> FALSE, segmentLength |-> 0,
   nth |-> nth, matched |-> <<>>]

\* stops[stops.length - 1].segmentPoints.push(point)
PushSegmentPoint(stops, p) ==
  [stops EXCEPT ![Len(stops)].segmentPoints = Append(@, p)]

\* the same loop without the check of prevStopId: every feature with a stop
\* id starts a stop
RECURSIVE retrieveStopsEach(_, _, _, _)
retrieveStopsEach(features, i, stops, prevStopId) ==
  IF i > Len(features) THEN stops
  ELSE LET el == features[i]
       IN IF el.sid # 0
          THEN retrieveStopsEach(features, i + 1,
                                 Append(IF prevStopId # Null
                                        THEN PushSegmentPoint(stops, el.point)
                                        ELSE stops,
                                        NewStop(el, Len(stops) + 1)),
                                 el.sid)
          ELSE IF Len(stops) > 0
          THEN retrieveStopsEach(features, i + 1, PushSegmentPoint(stops, el.point), prevStopId)
          ELSE retrieveStopsEach(features, i + 1, stops, prevStopId)

\* "Retrieve stops from polyline": the loop over data.polyline.features from
\* feature i on.  A feature without stop id has sid = 0.
RECURSIVE retrieveStops(_, _, _, _)
retrieveStops(features, i, stops, prevStopId) ==
  IF i > Len(features) THEN stops
  ELSE LET el == features[i]
       IN IF el.sid # 0 /\ (prevStopId = Null \/ prevStopId # el.sid)
          THEN retrieveStops(features, i + 1,
                             Append(IF prevStopId # Null
                                    THEN PushSegmentPoint(stops, el.point)
                                    ELSE stops,
                                    NewStop(el, Len(stops) + 1)),
                             el.sid)
          ELSE IF Len(stops) > 0
          THEN retrieveStops(features, i + 1, PushSegmentPoint(stops, el.point), prevStopId)
          ELSE retrieveStops(features, i + 1, stops, prevStopId)

\* "A stop takes at least 15 seconds"
widenNever(arrival, departure) == [arrival |-> arrival, departure |-> departure]
widen(arrival, departure) ==
  IF truthy(arrival) /\ truthy(departure) /\ arrival = departure
  THEN [arrival |-> arrival - StopHalf, departure |-> departure + StopHalf]
  ELSE [arrival |-> arrival, departure |-> departure]

\* The inner loop over data.stopovers for the stop at position i (from 0),
\* from stopover j on; completed is completedStopoverIndex, counted from 1.
RECURSIVE matchStopovers(_, _, _, _, _)
matchStopovers(stp, i, j, completed, stopovers) ==
  IF j > Len(stopovers) THEN [stp |-> stp, completed |-> completed]
  ELSE LET so == stopovers[j]
       IN IF (truthy(stp.arrival) \/ truthy(stp.departure)) /\ so.sid # stp.id
          THEN [stp |-> stp, completed |-> completed]
          ELSE IF so.sid # stp.id
          THEN matchStopovers(stp, i, j + 1, completed, stopovers)
          ELSE LET w == widen(so.arrival, so.departure)
                   upd == [stp EXCEPT
                            !.arrival = IF ~truthy(@) /\ i > 0 THEN w.arrival ELSE @,
                            !.departure = w.departure,
                            !.cancelled = so.cancelled,
                            !.matched = Append(@, j)]
               IN matchStopovers(upd, i, j + 1, j, stopovers)

\* "Search corresponding stopovers and fill in arrival/departure times":
\* the outer loop from the stop at index i (from 1) on.
RECURSIVE fillTimes(_, _, _, _)
fillTimes(stops, i, completed, stopovers) ==
  IF i > Len(stops) THEN stops
  ELSE LET r == matchStopovers(stops[i], i - 1, completed + 1, completed, stopovers)
       IN fillTimes([stops EXCEPT ![i] = r.stp], i + 1, r.completed, stopovers)

\* "Filter out stops not found in stopovers"
found(stp) == stp.arrival # Undef \/ stp.departure # Undef

Abs(n) == IF n < 0 THEN -n ELSE n

\* Math.sqrt(dx * dx + dy * dy), exact for the points of the model
Distance(p1, p2) ==
  LET dx == Abs(p2.x - p1.x)
      dy == Abs(p2.y - p1.y)
  IN IF dy = 0 THEN dx
     ELSE IF dx = 0 THEN dy
     ELSE CHOOSE r \in 0..(dx + dy) : r * r = dx * dx + dy * dy

\* getSegmentLength(stop)
RECURSIVE pathLength(_, _)
pathLength(p1, points) ==
  IF points = <<>> THEN 0
  ELSE Distance(p1, Head(points)) + pathLength(Head(points), Tail(points))

getSegmentLength(stp) == pathLength(stp.point, stp.segmentPoints)

\* the stops setDetailedData computes from the payload
stopsOf(data) ==
  LET walked == retrieveStops(data.polyline, 1, <<>>, Null)
      timed == fillTimes(walked, 1, 0, data.stopovers)
      kept == SelectSeq(timed, found)
  IN [i \in 1..Len(kept) |-> [kept[i] EXCEPT !.segmentLength = getSegmentLength(kept[i])]]

\* a payload that has a polyline; without one data.polyline.features throws
hasPolyline(data) == "polyline" \in DOMAIN data

\* setDetailedData(data) at Date.now() = t.  data and detailsTimestamp are
\* assigned first; when the walk of the polyline throws, this.stops is never
\* assigned and keeps its value.
setDetailedData(tr, data, t) ==
  [tr EXCEPT !.data = [id |-> data.id, detailed |-> TRUE],
             !.detailsTimestamp = t,
             !.stops = IF hasPolyline(data) THEN stopsOf(data) ELSE @]

setPreliminaryDataReset(tr, id) ==
  [tr EXCEPT !.data = [id |-> id, detailed |-> FALSE], !.detailsTimestamp = Null]
setPreliminaryData(tr, id) ==
  [tr EXCEPT !.data = [id |-> id, detailed |-> FALSE]]

isDetailed(tr) == tr.detailsTimestamp # Null

\* fromStop.departure >= now, for a departure that may be null or undefined
notBeforeStrict(v, t) == v > t
notBefore(v, t) == IF v = Undef THEN FALSE ELSE IF v = Null THEN 0 >= t ELSE v >= t

\* The loop of getCurrentPositionDetailed from index i on; from and to are the
\* indices of fromStop and toStop so far.
RECURSIVE bracket(_, _, _, _, _)
bracket(stops, i, from, to, t) ==
  IF i > Len(stops) THEN [from |-> from, to |-> to]
  ELSE LET stp == stops[i]
           f == IF \/ truthy(stp.arrival) /\ stp.arrival <= t
                   \/ truthy(stp.departure) /\ stp.departure <= t
                THEN i ELSE from
       IN IF stp.cancelled THEN bracket(stops, i + 1, from, to, t)
          ELSE IF truthy(stp.arrival) /\ stp.arrival > t THEN [from |-> f, to |-> i]
          ELSE bracket(stops, i + 1, f, to, t)

\* ---- the arithmetic of the interpolation -----------------------------------

\* A number that need not be whole is kept exactly as n / d in lowest terms,
\* d > 0.  d = 0 stands for a value that is not finite: n < 0 for -Infinity,
\* n > 0 for Infinity, n = 0 for NaN.
RECURSIVE GCD(_, _)
GCD(a, b) == IF b = 0 THEN a ELSE GCD(b, a % b)

Frac(n, d) ==
  IF d = 0 THEN [n |-> IF n < 0 THEN -1 ELSE IF n > 0 THEN 1 ELSE 0, d |-> 0]
  ELSE LET g == GCD(Abs(n), Abs(d))
       IN IF d < 0 THEN [n |-> (0 - n) \div g, d |-> (0 - d) \div g]
          ELSE [n |-> n \div g, d |-> d \div g]

NaN == Frac(0, 0)
finite(q) == q.d # 0

\* q * k and q - k for a whole k
times(q, k) ==
  IF finite(q) THEN Frac(q.n * k, q.d)
  ELSE IF k = 0 THEN NaN ELSE IF k < 0 THEN Frac(0 - q.n, 0) ELSE q
minus(q, k) == IF finite(q) THEN Frac(q.n - k * q.d, q.d) ELSE q

\* q <= k; every comparison with NaN is false
atMost(q, k) == IF finite(q) THEN q.n <= k * q.d ELSE q.n < 0

\* a stop time as an operand of - : null counts as 0
num(v) == IF v = Null THEN 0 ELSE v

\* "Smoothstep": baseProgress * baseProgress * (3 - 2 * baseProgress) for
\* baseProgress = timeIntoSegment / segmentDuration, with timeIntoSegment > 0.
\* A zero duration gives baseProgress = Infinity and an eased value -Infinity.
getAugmentedSegmentProgressOvershoot(segmentDuration, timeIntoSegment) ==
  IF segmentDuration = 0 THEN Frac(-1, 0)
  ELSE LET b == Frac(timeIntoSegment, segmentDuration)
       IN Frac(b.n * b.n * (2 * b.d - 2 * b.n), b.d * b.d * b.d)
getAugmentedSegmentProgress(segmentDuration, timeIntoSegment) ==
  IF segmentDuration = 0 THEN Frac(-1, 0)
  ELSE LET b == Frac(timeIntoSegment, segmentDuration)
       IN Frac(b.n * b.n * (3 * b.d - 2 * b.n), b.d * b.d * b.d)

\* new Point(0, 0), the value returned after the loop
Origin == [x |-> 0, y |-> 0]
\* a point with a coordinate that is not finite
NaP == [x |-> Undef, y |-> Undef]

\* "Find position along segment points": the loop from segment point i on,
\* with distanceAlongSegment = dist still to go from p1.  Coordinates are whole
\* metres: the fraction of an interpolated coordinate is dropped.
RECURSIVE walkNoAdvance(_, _, _, _)
walkNoAdvance(points, i, dist, p1) ==
  IF i > Len(points) THEN [kind |-> "fallthrough", point |-> Origin]
  ELSE LET p2 == points[i]
           dx == p2.x - p1.x
           dy == p2.y - p1.y
           pointDistance == Distance(p1, p2)
       IN IF atMost(dist, pointDistance)
          THEN IF ~finite(dist) \/ pointDistance = 0
               THEN [kind |-> "segment", point |-> NaP]
               ELSE LET ratio == Frac(dist.n, dist.d * pointDistance)
                    IN [kind |-> "segment",
                        point |-> [x |-> p1.x + ((ratio.n * dx) \div ratio.d),
                                   y |-> p1.y + ((ratio.n * dy) \div ratio.d)]]
          ELSE walkNoAdvance(points, i + 1, minus(dist, pointDistance), p1)
RECURSIVE walk(_, _, _, _)
walk(points, i, dist, p1) ==
  IF i > Len(points) THEN [kind |-> "fallthrough", point |-> Origin]
  ELSE LET p2 == points[i]
           dx == p2.x - p1.x
           dy == p2.y - p1.y
           pointDistance == Distance(p1, p2)
       IN IF atMost(dist, pointDistance)
          THEN IF ~finite(dist) \/ pointDistance = 0
               THEN [kind |-> "segment", point |-> NaP]
               ELSE LET ratio == Frac(dist.n, dist.d * pointDistance)
                    IN [kind |-> "segment",
                        point |-> [x |-> p1.x + ((ratio.n * dx) \div ratio.d),
                                   y |-> p1.y + ((ratio.n * dy) \div ratio.d)]]
          ELSE walk(points, i + 1, minus(dist, pointDistance), p2)

\* segmentProgress for the bracket b at Date.now() = t; a time that is
\* undefined makes it NaN
segmentProgress(stops, b, t) ==
  LET fromStop == stops[b.from]
      toStop == stops[b.to]
  IN IF fromStop.departure = Undef \/ toStop.arrival = Undef THEN NaN
     ELSE getAugmentedSegmentProgress(num(toStop.arrival) - num(fromStop.departure),
                                      t - num(fromStop.departure))

\* getCurrentPositionDetailed() at Date.now() = t.  With no stops the read of
\* fromStop.point throws.  Past the early return the vehicle is placed along
\* fromStop's segment points, and a walk that runs out of them returns
\* Point(0, 0): console.assert reports and does not throw.
getCurrentPositionDetailed(tr, t) ==
  IF tr.stops = <<>> THEN Position("error", 0, 0, NoPoint)
  ELSE LET b == bracket(tr.stops, 2, 1, Len(tr.stops), t)
           fromStop == tr.stops[b.from]
       IN IF b.from = b.to \/ notBefore(fromStop.departure, t)
          THEN Position("stop", b.from, b.to, fromStop.point)
          ELSE LET distanceAlongSegment ==
                     times(segmentProgress(tr.stops, b, t), fromStop.segmentLength)
                   w == walk(fromStop.segmentPoints, 1, distanceAlongSegment,
                             fromStop.point)
               IN Position(w.kind, b.from, b.to, w.point)


\* ---- the payloads a trip is given -----------------------------------------

MaxPoly == 3          \* features of a polyline
MaxStopovers == 2     \* stopovers of a payload

StopIds == {1, 2}
Instants == {10000, 30000}

\* getPointFromLatLon of the i-th feature: the features lie along one line
PointAt(i) == [x |-> 100 * i, y |-> 0]

\* Stop ids are only compared with each other, so a polyline names its first
\* stop 1.
FirstStopIsOne(f) ==
  \A i \in DOMAIN f : f[i] = 2 => \E j \in 1..(i - 1) : f[j] = 1

Polylines ==
  UNION {{[i \in 1..n |-> [sid |-> f[i], point |-> PointAt(i)]] :
            f \in {g \in [1..n -> {0} \cup StopIds] : FirstStopIsOne(g)}} :
         n \in 0..MaxPoly}

Stopovers ==
  [sid : StopIds, arrival : Instants \cup {Null}, departure : Instants \cup {Null},
   cancelled : BOOLEAN]

\* the instants of a stopover list in stopover order: arrival, then departure
instantAt(so, k) ==
  IF k % 2 = 1 THEN so[(k + 1) \div 2].arrival ELSE so[k \div 2].departure

\* the instants that are given are non-decreasing in stopover order
Chronological(so) ==
  \A a, b \in 1..(2 * Len(so)) :
    a < b /\ instantAt(so, a) # Null /\ instantAt(so, b) # Null
      => instantAt(so, a) <= instantAt(so, b)

\* Only the origin lacks an arrival and only the destination a departure, and
\* at most one stopover is cancelled.
WellFormed(so) ==
  /\ \A i \in DOMAIN so : so[i].arrival = Null => i = 1
  /\ \A i \in DOMAIN so : so[i].departure = Null => i = Len(so)
  /\ Cardinality({i \in DOMAIN so : so[i].cancelled}) <= 1

StopoverLists ==
  UNION {{so \in [1..n -> Stopovers] : Chronological(so) /\ WellFormed(so)} :
         n \in 0..MaxStopovers}

Payloads == [id : {1}, polyline : Polylines, stopovers : StopoverLists]

\* the instants at which the position is asked for: the stop times a payload
\* can lead to, and one instant before, between and after them
QueryTimes == {1000, 2500, 5000, 10000, 12500, 17500, 20000, 22500, 25000,
               30000, 35000, 37500, 40000}

\* ---- the Trip engine as a state machine -----------------------------------

schedvars == <<rqvars, inflight, nextJob, sched, renewal>>

InitTrip ==
  /\ SchedulerInit
  /\ payload \in Payloads
  /\ trip = NewTrip(1)
  /\ pos = NoPos
  /\ IndexIdle
  /\ FetchIdle
  /\ PureIdle
  /\ ListIdle

\* trip.setDetailedData(data), once per trip
ApplyDetailed ==
  /\ ~isDetailed(trip)
  /\ trip' = setDetailedData(trip, payload, now)
  /\ lastOp' = Op("setDetailedData", NoJob, "none")
  /\ UNCHANGED <<schedvars, indexvars, purevars, listvars, fetchvars, now, payload, pos>>

\* animate(): Date.now() has moved on to t and the position is read
QueryPosition ==
  \E t \in QueryTimes :
    /\ isDetailed(trip)
    /\ t >= now
    /\ now' = t
    /\ pos' = [at |-> t, res |-> getCurrentPositionDetailed(trip, t)]
    /\ lastOp' = Op("getCurrentPosition", NoJob, "none")
    /\ UNCHANGED <<schedvars, indexvars, purevars, listvars, fetchvars, payload, trip>>

NextTrip ==
  \/ ApplyDetailed
  \/ QueryPosition

SpecTrip == InitTrip /\ [][NextTrip]_<<vars, appvars>>


\* ---- properties of the Trip engine ----------------------------------------

Applied == isDetailed(trip) /\ trip.data.detailed
Asked == pos.res.kind # "none"
LastStop == trip.stops[Len(trip.stops)]

\* a stop time that is a number: neither null nor undefined
numeric(v) == v >= 0

\* C17, as stated: after setDetailedData the last stop of the stop sequence
\* has no segment points, whatever the polyline.
C17_AsStated ==
  Applied /\ trip.stops # <<>> => LastStop.segmentPoints = <<>>

\* C18, as stated: for a payload whose stopover instants are non-decreasing
\* in stopover order, adjacent stops of the result with defined times satisfy
\* departure[i] <= arrival[i+1], widened stops included.
C18_AsStated ==
  Applied /\ Chronological(payload.stopovers) =>
    \A i \in 1..(Len(trip.stops) - 1) :
      numeric(trip.stops[i].departure) /\ numeric(trip.stops[i + 1].arrival)
        => trip.stops[i].departure <= trip.stops[i + 1].arrival

\* stopover j of the payload has equal arrival and departure
ZeroWidth(j) ==
  /\ payload.stopovers[j].arrival # Null
  /\ payload.stopovers[j].arrival = payload.stopovers[j].departure

Spans15s(stp) ==
  numeric(stp.arrival) /\ numeric(stp.departure) /\ stp.departure - stp.arrival = 2 * StopHalf

\* C19, as stated: every stopover whose arrival equals its departure yields a
\* stop with departure - arrival = 15000 ms, at every stop position.
C19_AsStated ==
  Applied =>
    \A i \in DOMAIN trip.stops :
      \A k \in DOMAIN trip.stops[i].matched :
        ZeroWidth(trip.stops[i].matched[k]) => Spans15s(trip.stops[i])

\* C19: a stopover whose arrival equals its departure, when it is the only
\* stopover matched to its stop and the stop is not the first stop of the
\* polyline, yields a stop whose arrival is 7500 ms earlier and whose
\* departure is 7500 ms later than that instant: departure - arrival = 15000.
C19_WidenedBy15s ==
  Applied =>
    \A i \in DOMAIN trip.stops :
      LET stp == trip.stops[i]
      IN stp.nth > 1 /\ Len(stp.matched) = 1 /\ ZeroWidth(stp.matched[1])
           => /\ Spans15s(stp)
              /\ stp.arrival = payload.stopovers[stp.matched[1]].arrival - StopHalf
              /\ stp.departure = payload.stopovers[stp.matched[1]].departure + StopHalf

C19_Witness ==
  /\ Applied
  /\ \E i \in DOMAIN trip.stops :
       /\ trip.stops[i].nth > 1
       /\ Len(trip.stops[i].matched) = 1
       /\ ZeroWidth(trip.stops[i].matched[1])
       /\ Spans15s(trip.stops[i])

\* the first stop is waited at until its departure, any other stop from its
\* arrival to its departure
AtStop(i, t) ==
  LET stp == trip.stops[i]
  IN /\ ~stp.cancelled
     /\ numeric(stp.departure) /\ t <= stp.departure
     /\ i > 1 => numeric(stp.arrival) /\ stp.arrival <= t

\* stop times in order: within a stop, and from each stop to the next
Monotone(stops) ==
  /\ \A i \in DOMAIN stops :
       numeric(stops[i].arrival) /\ numeric(stops[i].departure)
         => stops[i].arrival <= stops[i].departure
  /\ \A i \in 1..(Len(stops) - 1) :
       numeric(stops[i].departure) /\ numeric(stops[i + 1].arrival)
         => stops[i].departure <= stops[i + 1].arrival

\* no stop is reached at the instant the stop before it is left
Apart(stops) ==
  \A i \in 1..(Len(stops) - 1) : stops[i].departure # stops[i + 1].arrival

\* C20, as stated: with monotone stop times the position asked for at an
\* instant at which the trip is at a non-cancelled stop is that stop's point.
C20_AsStated ==
  Applied /\ Asked /\ Monotone(trip.stops) =>
    \A i \in DOMAIN trip.stops :
      AtStop(i, pos.at) => pos.res.kind = "stop" /\ pos.res.point = trip.stops[i].point

\* C20: the same, for stop times that are strictly increasing from one stop to
\* the next (departure[i] < arrival[i+1]).
C20_NoExtrapolation ==
  Applied /\ Asked /\ Monotone(trip.stops) /\ Apart(trip.stops) =>
    \A i \in DOMAIN trip.stops :
      AtStop(i, pos.at) => pos.res.kind = "stop" /\ pos.res.point = trip.stops[i].point

\* asked at the very instant of departure from a stop that has a next stop
C20_Witness ==
  /\ Applied /\ Asked /\ Monotone(trip.stops) /\ Apart(trip.stops)
  /\ \E i \in 1..(Len(trip.stops) - 1) :
       /\ AtStop(i, pos.at)
       /\ pos.at = trip.stops[i].departure
       /\ pos.res.from = i /\ pos.res.to > i
       /\ pos.res.point = trip.stops[i].point


\* ---- the interpolation along a segment --------------------------------------

\* the position was computed past the early return: fromStop # toStop and
\* fromStop has departed
Interpolates == pos.res.kind \in {"segment", "fallthrough"}
Bracket == [from |-> pos.res.from, to |-> pos.res.to]

\* the progress the target distance was computed from
ProgressUsed == segmentProgress(trip.stops, Bracket, pos.at)

inUnitInterval(q) == finite(q) /\ 0 <= q.n /\ q.n <= q.d

\* C21, as stated: whenever the position is interpolated, the progress value
\* the target distance is computed from lies within [0, 1].
C21_AsStated ==
  Applied /\ Asked /\ Interpolates => inUnitInterval(ProgressUsed)


\* the walk ran out of fromStop's segment points before the target distance
\* was reached
Exhausted == pos.res.kind = "fallthrough"
\* the call handed a coordinate to its caller
ReturnsPoint == pos.res.kind # "error" /\ pos.res.point # NoPoint

\* C22, as stated: a walk that exhausts the segment points fails loudly: the
\* call returns no coordinate to its caller.
C22_AsStated ==
  Applied /\ Asked /\ Exhausted => ~ReturnsPoint


\* the distance of the returned point from fromStop's point along fromStop's
\* segment points, which lie along one line in the direction of x
Along(res) == res.point.x - trip.stops[res.from].point.x

\* t lies between the departure from fromStop and the arrival at toStop
InLeg(res, t) ==
  LET fromStop == trip.stops[res.from]
      toStop == trip.stops[res.to]
  IN /\ numeric(fromStop.departure) /\ numeric(toStop.arrival)
     /\ fromStop.departure <= t /\ t <= toStop.arrival

\* C28: when the position is asked for twice with the same bracket, at
\* instants from fromStop's departure to toStop's arrival, the later answer is
\* at least as far along fromStop's segment as the earlier one.
C28_NoBackwardJump ==
  [][/\ Applied /\ Asked /\ trip' = trip
     /\ pos.res.from > 0
     /\ pos'.res.from = pos.res.from /\ pos'.res.to = pos.res.to
     /\ pos.at <= pos'.at
     /\ InLeg(pos.res, pos.at) /\ InLeg(pos.res, pos'.at)
     => Along(pos'.res) >= Along(pos.res)]_<<vars, appvars>>

\* the vehicle is an eighth of the time into a leg and, eased, 11/256 of the
\* way
C28_Witness ==
  /\ Applied /\ Asked /\ pos.res.kind = "segment"
  /\ InLeg(pos.res, pos.at)
  /\ ProgressUsed = Frac(11, 256)
  /\ Along(pos.res) > 0


\* ---- the choice of fromStop and toStop ---------------------------------------

\* the stop at index i is not cancelled and has arrived or departed by t
Passed(i, t) ==
  LET stp == trip.stops[i]
  IN /\ ~stp.cancelled
     /\ \/ numeric(stp.arrival) /\ stp.arrival <= t
        \/ numeric(stp.departure) /\ stp.departure <= t

\* the stop at index j is not cancelled and arrives after t
Ahead(j, t) ==
  LET stp == trip.stops[j]
  IN ~stp.cancelled /\ numeric(stp.arrival) /\ stp.arrival > t

\* C31, as stated: fromStop is never a cancelled stop and is the latest
\* non-cancelled stop whose arrival or departure is <= now; toStop is the first
\* non-cancelled stop after fromStop whose arrival is > now, and the last stop
\* only when there is none.
C31_AsStated ==
  Applied /\ Asked /\ trip.stops # <<>> =>
    LET n == Len(trip.stops)
        t == pos.at
        passed == {i \in 1..n : Passed(i, t)}
        ahead == {j \in (pos.res.from + 1)..n : Ahead(j, t)}
    IN /\ ~trip.stops[pos.res.from].cancelled
       /\ passed # {} => pos.res.from \in passed /\ \A i \in passed : i <= pos.res.from
       /\ IF ahead # {}
          THEN pos.res.to \in ahead /\ \A j \in ahead : pos.res.to <= j
          ELSE pos.res.to = n


\* ---- the walk of the polyline -------------------------------------------------

\* the stops of the payload's polyline before times are filled in and stops
\* are filtered
Walked == retrieveStops(payload.polyline, 1, <<>>, Null)

\* the stop id of the latest feature before feature i that has one, 0 if none
RecognisedBefore(f, i) ==
  LET before == {j \in 1..(i - 1) : f[j].sid # 0}
  IN IF before = {} THEN 0
     ELSE f[CHOOSE j \in before : \A k \in before : k <= j].sid

\* the features that start a run of one stop id: among the features that have
\* a stop id, and among all features of the polyline
RunStarts(f) == {i \in DOMAIN f : f[i].sid # 0 /\ RecognisedBefore(f, i) # f[i].sid}
AdjacentRunStarts(f) ==
  {i \in DOMAIN f : f[i].sid # 0 /\ (i = 1 \/ f[i - 1].sid # f[i].sid)}

\* C32, as stated: every maximal run of consecutive polyline points that carry
\* the same stop id yields exactly one Stop before filtering.
C32_AsStated ==
  Applied => Len(Walked) = Cardinality(AdjacentRunStarts(payload.polyline))

\* C32: a feature whose stop id equals the id of the latest recognised stop
\* starts no Stop and is appended to that stop's segment points, also when
\* features without a stop id lie in between; the walk yields one Stop for
\* every maximal run of equal ids in the sequence of features that have an id.
C32_Collapse ==
  Applied =>
    LET f == payload.polyline
    IN /\ Len(Walked) = Cardinality(RunStarts(f))
       /\ \A i \in DOMAIN f :
            f[i].sid # 0 /\ i \notin RunStarts(f) =>
              LET k == Cardinality({j \in RunStarts(f) : j < i})
              IN /\ Walked[k].id = f[i].sid
                 /\ f[i].point \in Range(Walked[k].segmentPoints)
                 /\ \A m \in DOMAIN Walked : Walked[m].point # f[i].point

\* a polyline whose first two features carry the same stop id, applied
C32_Witness ==
  /\ Applied
  /\ Len(payload.polyline) >= 3
  /\ payload.polyline[1].sid = payload.polyline[2].sid
  /\ payload.polyline[3].sid = 2
  /\ Len(Walked) = 2
  /\ Walked[1].segmentPoints = <<PointAt(2), PointAt(3)>>


\* ---- the filter of the stops ---------------------------------------------------

\* C33, as stated: after setDetailedData no stop of the stop sequence has both
\* its arrival and its departure unresolved (undefined or null).
C33_AsStated ==
  Applied =>
    \A i \in DOMAIN trip.stops :
      numeric(trip.stops[i].arrival) \/ numeric(trip.stops[i].departure)


\* ---- a trip of three stops, end to end --------------------------------------

MaxStart == 3         \* the instants t0 a scenario starts at, in minutes

\* Three stops 1000 m apart along one line; each segment has a point mid
\* metres behind its stop before it reaches the next stop.
ScenarioPolyline(mid) ==
  << [sid |-> 1, point |-> [x |-> 0, y |-> 0]],
     [sid |-> 0, point |-> [x |-> mid, y |-> 0]],
     [sid |-> 2, point |-> [x |-> 1000, y |-> 0]],
     [sid |-> 0, point |-> [x |-> 1000 + mid, y |-> 0]],
     [sid |-> 3, point |-> [x |-> 2000, y |-> 0]] >>

\* stops at [t0, t0+60s], [t0+60s, t0+90s], [t0+120s, -]
ScenarioStopovers(t0) ==
  << [sid |-> 1, arrival |-> t0, departure |-> t0 + 60000, cancelled |-> FALSE],
     [sid |-> 2, arrival |-> t0 + 60000, departure |-> t0 + 90000, cancelled |-> FALSE],
     [sid |-> 3, arrival |-> t0 + 120000, departure |-> Null, cancelled |-> FALSE] >>

Scenario(t0, mid) ==
  [id |-> 1, polyline |-> ScenarioPolyline(mid), stopovers |-> ScenarioStopovers(t0)]

Scenarios ==
  {Scenario(60000 * m, mid) : m \in 1..MaxStart, mid \in {200, 400, 600, 800}}

\* t0 of the scenario in payload, and the offset of its intermediate points
ScenarioStart == payload.stopovers[1].arrival
ScenarioMid == payload.polyline[2].point.x

InitScenario ==
  /\ SchedulerInit
  /\ payload \in Scenarios
  /\ trip = NewTrip(1)
  /\ pos = NoPos
  /\ IndexIdle
  /\ FetchIdle
  /\ PureIdle
  /\ ListIdle

\* trip.setDetailedData(data) for the scenario's payload
ScenarioDetailed ==
  /\ ~isDetailed(trip)
  /\ trip' = setDetailedData(trip, payload, now)
  /\ lastOp' = Op("setDetailedData", NoJob, "none")
  /\ UNCHANGED <<schedvars, indexvars, purevars, listvars, fetchvars, now, payload, pos>>

\* animate(): the position is read every 7.5 s from t0 to t0 + 135 s
ScenarioQuery ==
  \E k \in 0..18 :
    LET t == ScenarioStart + 7500 * k
    IN /\ isDetailed(trip)
       /\ t >= now
       /\ now' = t
       /\ pos' = [at |-> t, res |-> getCurrentPositionDetailed(trip, t)]
       /\ lastOp' = Op("getCurrentPosition", NoJob, "none")
       /\ UNCHANGED <<schedvars, indexvars, purevars, listvars, fetchvars, payload, trip>>

NextScenario ==
  \/ ScenarioDetailed
  \/ ScenarioQuery

SpecScenario == InitScenario /\ [][NextScenario]_<<vars, appvars>>

\* the position was asked for at t0 + ms
AskedAfter(ms) == Applied /\ Asked /\ pos.at = ScenarioStart + ms

\* C23, as stated: in the scenario with intermediate points at 400 m and
\* 1000 m, the position at t0 + 75 s is the point 500 m along the 1000 m
\* segment.
C23_AsStated ==
  AskedAfter(75000) /\ ScenarioMid = 400 =>
    pos.res.kind = "segment" /\ pos.res.point = [x |-> 500, y |-> 0]

\* C23: in the scenario the vehicle stands at the second stop from t0 + 60 s
\* to t0 + 90 s, so the position at t0 + 75 s is the second stop's point; the
\* leg from the second to the third stop lasts from t0 + 90 s to t0 + 120 s,
\* and midway through it, at t0 + 105 s, the position is the point
\* ease(0.5) = 0.5 of the way, 500 m along the second stop's 1000 m segment.
C23_ScenarioMidLeg ==
  /\ AskedAfter(75000) =>
       pos.res.kind = "stop" /\ pos.res.from = 2 /\ pos.res.point = trip.stops[2].point
  /\ AskedAfter(105000) =>
       /\ pos.res.kind = "segment" /\ pos.res.from = 2 /\ pos.res.to = 3
       /\ ProgressUsed = Frac(1, 2)
       /\ pos.res.point = [x |-> 1500, y |-> 0]

C23_Witness ==
  /\ AskedAfter(105000) /\ ScenarioMid = 400
  /\ pos.res.kind = "segment"
  /\ pos.res.point.x > trip.stops[2].segmentPoints[1].x
  /\ pos.res.point.x < trip.stops[2].segmentPoints[2].x


\* ==========================================================================
\* The driver's trip index: trips, fetchNewTrips, updateRequestOrder,
\* onDetailedData and the retirement of finished trips in animate.
\* ==========================================================================

MaxTrips == 2         \* Trip objects created in one run
MaxFlying == 2        \* detail requests in flight at once

\* what a detail response carries besides its id: a route of two stops with a
\* point between them
RouteBody ==
  [polyline |-> <<[sid |-> 1, point |-> PointAt(1)], [sid |-> 0, point |-> PointAt(2)],
                  [sid |-> 2, point |-> PointAt(3)]>>,
   stopovers |-> <<[sid |-> 1, arrival |-> Null, departure |-> 10000, cancelled |-> FALSE],
                   [sid |-> 2, arrival |-> 30000, departure |-> Null, cancelled |-> FALSE]>>]

NotModifiedData ==
  [notModified |-> TRUE, id |-> 0, cancelled |-> FALSE, polyline |-> <<>>, stopovers |-> <<>>]
TripData(id, cancelled, b) ==
  [notModified |-> FALSE, id |-> id, cancelled |-> cancelled,
   polyline |-> b.polyline, stopovers |-> b.stopovers]
Responses ==
  {NotModifiedData}
    \cup {TripData(id, cancelled, RouteBody) : id \in TripIds, cancelled \in BOOLEAN}

\* onDetailedData for data.notModified: trip.detailsTimestamp = Date.now()
notModified(tr, t) == [tr EXCEPT !.detailsTimestamp = t]

\* Map operations on the index
has(ix, id) == ix[id] # 0
delete(ix, id) == [ix EXCEPT ![id] = 0]
set(ix, id, ref) == [ix EXCEPT ![id] = ref]
\* trips.values()
values(ix) == {ix[id] : id \in TripIds} \ {0}

\* onDetailedData(trip, data) at Date.now() = t, for the Trip object ref of
\* heap hp and the index ix
onDetailedDataKeepKey(ix, hp, ref, data, t) ==
  [trips |-> IF data.notModified \/ data.cancelled THEN ix ELSE set(ix, data.id, ref),
   heap |-> IF data.notModified \/ data.cancelled THEN hp
            ELSE [hp EXCEPT ![ref] = setDetailedData(@, data, t)]]
onDetailedData(ix, hp, ref, data, t) ==
  LET id == hp[ref].data.id
  IN IF data.notModified
     THEN [trips |-> ix, heap |-> [hp EXCEPT ![ref] = notModified(@, t)]]
     ELSE IF data.cancelled
     THEN [trips |-> delete(ix, id), heap |-> hp]
     ELSE IF data.id # id
     THEN IF has(delete(ix, id), data.id)
          THEN [trips |-> delete(ix, id), heap |-> hp]
          ELSE [trips |-> set(delete(ix, id), data.id, ref),
                heap |-> [hp EXCEPT ![ref] = setDetailedData(@, data, t)]]
     ELSE [trips |-> ix, heap |-> [hp EXCEPT ![ref] = setDetailedData(@, data, t)]]

\* a detail request: the id it asks for and the callback it ends in, which
\* either holds its Trip object (fetchNewTrips) or looks the id up in the
\* index (updateRequestOrder)
Request(id, cb, ref) == [id |-> id, cb |-> cb, ref |-> ref, flying |-> FALSE]

InitIndex ==
  /\ SchedulerInit
  /\ TripIdle
  /\ IndexIdle
  /\ FetchIdle
  /\ PureIdle
  /\ ListIdle

\* fetchNewTrips: the callback of fetchAllTrips for preliminary data with id
FetchNewTrip ==
  \E id \in TripIds :
    /\ ~has(trips, id)
    /\ Len(heap) < MaxTrips
    /\ heap' = Append(heap, NewTrip(id))
    /\ trips' = set(trips, id, Len(heap) + 1)
    /\ requests' = requests \cup {Request(id, "captured", Len(heap) + 1)}
    /\ UNCHANGED <<schedvars, tripvars, purevars, listvars, fetchvars, now, lastOp>>

\* updateRequestOrder: the jobs still waiting are replaced by one job for
\* each trip of the index, except detailed trips updated within the last
\* second (fresh)
UpdateRequestOrder ==
  \E fresh \in SUBSET {ref \in values(trips) : isDetailed(heap[ref])} :
    /\ requests' = {r \in requests : r.flying}
                     \cup {Request(heap[ref].data.id, "lookup", 0) : ref \in values(trips) \ fresh}
    /\ UNCHANGED <<schedvars, tripvars, purevars, listvars, fetchvars, now, lastOp, trips, heap>>

\* a tick of the request queue starts a waiting job
StartRequest ==
  \E r \in requests :
    /\ ~r.flying
    /\ Cardinality({q \in requests : q.flying}) < MaxFlying
    /\ requests' = (requests \ {r}) \cup {[r EXCEPT !.flying = TRUE]}
    /\ UNCHANGED <<schedvars, tripvars, purevars, listvars, fetchvars, now, lastOp, trips, heap>>

\* the request fails and a job with the same callback is enqueued again
RetryRequest ==
  \E r \in requests :
    /\ r.flying
    /\ requests' = (requests \ {r}) \cup {[r EXCEPT !.flying = FALSE]}
    /\ UNCHANGED <<schedvars, tripvars, purevars, listvars, fetchvars, now, lastOp, trips, heap>>

\* the response of a request in flight arrives and its callback runs
Deliver ==
  \E r \in requests, data \in Responses :
    /\ r.flying
    /\ LET ref == IF r.cb = "captured" THEN r.ref ELSE trips[r.id]
           out == IF ref = 0
                  THEN [trips |-> trips, heap |-> heap]
                  ELSE onDetailedData(trips, heap, ref, data, now)
       IN /\ trips' = out.trips
          /\ heap' = out.heap
    /\ requests' = requests \ {r}
    /\ UNCHANGED <<schedvars, tripvars, purevars, listvars, fetchvars, now, lastOp>>

\* animate: a detailed trip that is finished is removed from the index
Retire ==
  \E ref \in values(trips) :
    /\ isDetailed(heap[ref])
    /\ trips' = delete(trips, heap[ref].data.id)
    /\ UNCHANGED <<schedvars, tripvars, purevars, listvars, fetchvars, now, lastOp, heap, requests>>

NextIndex ==
  \/ FetchNewTrip
  \/ UpdateRequestOrder
  \/ StartRequest
  \/ RetryRequest
  \/ Deliver
  \/ Retire

SpecIndex == InitIndex /\ [][NextIndex]_<<vars, appvars>>


\* ---- properties of the trip index -----------------------------------------

\* the Trip object a request's callback would hand its response to (0: none)
TripOf(r) == IF r.cb = "captured" THEN r.ref ELSE trips[r.id]

\* the request's trip is no longer in the index
Late(r) == TripOf(r) \notin values(trips)

\* C13, as stated: a response whose trip is no longer in the index is
\* discarded: it changes neither the index nor any Trip, whether its job came
\* from fetchTripDetails (enqueue) or from updateRequestQueue (replaceQueue).
C13_AsStated ==
  [][\A r \in requests :
       r.flying /\ r \notin requests' /\ Late(r) => trips' = trips /\ heap' = heap]_<<vars, appvars>>

\* C14: every entry (key, trip) of the index has trip.id = key, and no Trip
\* object is stored under two keys, whatever detail responses have arrived.
C14_IndexConsistent ==
  /\ \A id \in TripIds : has(trips, id) => heap[trips[id]].data.id = id
  /\ \A id1, id2 \in TripIds : has(trips, id1) /\ trips[id1] = trips[id2] => id1 = id2

\* a trip was moved to the id its response carried while the request made
\* for its first id is still pending, and the index holds a second trip
C14_Witness ==
  /\ \E r \in requests :
       /\ r.cb = "captured"
       /\ heap[r.ref].data.id # r.id
       /\ trips[heap[r.ref].data.id] = r.ref
  /\ Cardinality(values(trips)) = 2


\* ==========================================================================
\* The life of one Trip: the operations that reach it, in any order, while
\* time passes.
\* ==========================================================================

\* a polyline without any stop, and a route none of whose stops has a stopover
EmptyBody == [polyline |-> <<>>, stopovers |-> <<>>]
UnmatchedBody == [polyline |-> RouteBody.polyline, stopovers |-> <<>>]

\* a detail payload that lacks its polyline
NoPolyline(id) == [id |-> id, stopovers |-> RouteBody.stopovers]

LifePayloads ==
  {TripData(id, FALSE, b) : id \in TripIds, b \in {RouteBody, EmptyBody, UnmatchedBody}}
    \cup {NoPolyline(id) : id \in TripIds}

InitLife ==
  /\ SchedulerInit
  /\ payload = NoPayload
  /\ trip = NewTrip(1)
  /\ pos = NoPos
  /\ IndexIdle
  /\ FetchIdle
  /\ PureIdle
  /\ ListIdle

LifeClock ==
  /\ now < MaxTime
  /\ now' = now + 1
  /\ lastOp' = Op("advance", NoJob, "none")
  /\ UNCHANGED <<schedvars, indexvars, purevars, listvars, fetchvars, tripvars>>

\* onDetailedData: trip.setDetailedData(data)
LifeDetailed ==
  \E data \in LifePayloads :
    /\ payload' = data
    /\ trip' = setDetailedData(trip, data, now)
    /\ lastOp' = Op("setDetailedData", NoJob, "none")
    /\ UNCHANGED <<schedvars, indexvars, purevars, listvars, fetchvars, now, pos>>

\* onDetailedData with data.notModified
LifeNotModified ==
  /\ trip' = notModified(trip, now)
  /\ lastOp' = Op("notModified", NoJob, "none")
  /\ UNCHANGED <<schedvars, indexvars, purevars, listvars, fetchvars, now, payload, pos>>

\* trip.setPreliminaryData(data)
LifePreliminary ==
  \E id \in TripIds :
    /\ trip' = setPreliminaryData(trip, id)
    /\ lastOp' = Op("setPreliminaryData", NoJob, "none")
    /\ UNCHANGED <<schedvars, indexvars, purevars, listvars, fetchvars, now, payload, pos>>

NextLife ==
  \/ LifeClock
  \/ LifeDetailed
  \/ LifeNotModified
  \/ LifePreliminary

SpecLife == InitLife /\ [][NextLife]_<<vars, appvars>>

\* C15: a new Trip is Preliminary, applying a detailed payload makes it
\* Detailed, and a Detailed trip stays Detailed whatever operation follows.
C15_ForwardOnly ==
  [][/\ isDetailed(trip) => isDetailed(trip')
     /\ lastOp'.op = "setDetailedData" => isDetailed(trip')
     /\ lastOp.op = "init" => ~isDetailed(trip)]_<<vars, appvars>>

\* setPreliminaryData has just run on a trip that is Detailed
C15_Witness ==
  /\ lastOp.op = "setPreliminaryData"
  /\ isDetailed(trip) /\ ~trip.data.detailed /\ trip.stops # <<>>

\* C16, as stated: a Trip that is Detailed has at least one stop, whatever
\* payload was applied and also after a not-modified response.
C16_AsStated == isDetailed(trip) => trip.stops # <<>>


\* C24, as stated: when setDetailedData fails partway on a malformed payload
\* (one without polyline), the Trip is left as it was before the call: data,
\* details timestamp and stops unchanged.
C24_AsStated ==
  [][lastOp'.op = "setDetailedData" /\ ~hasPolyline(payload') => trip' = trip]_<<vars, appvars>>


\* ==========================================================================
\* The polyline patches: the table of replacement polylines and getPatch.
\* ==========================================================================

\* new LatLon(lat, lon), in units of 0.00001 degrees
LatLon(lat, lon) == [lat |-> lat, lon |-> lon]

\* The table.  The key of an entry in the Map is its two stop names joined by
\* " - "; an entry holds the names as they are written in the key.
PatchEntry(stopName, nextStopName, lineNames, patchedLatLons) ==
  [stopName |-> stopName, nextStopName |-> nextStopName,
   lineNames |-> lineNames, patchedLatLons |-> patchedLatLons]

patches ==
  {
    PatchEntry("S+U Gesundbrunnen Bhf (Berlin)", "S Bornholmer Str. (Berlin)",
      <<"S1", "S2", "S25">>,
      <<LatLon(5254940, 1339409),
        LatLon(5254958, 1339528),
        LatLon(5254985, 1339626),
        LatLon(5255020, 1339698),
        LatLon(5255082, 1339778),
        LatLon(5255164, 1339831),
        LatLon(5255264, 1339840),
        LatLon(5255358, 1339814),
        LatLon(5255476, 1339784)>>),
    PatchEntry("S Bornholmer Str. (Berlin)", "S+U Gesundbrunnen Bhf (Berlin)",
      <<"S1", "S2", "S25">>,
      <<LatLon(5255358, 1339814),
        LatLon(5255264, 1339840),
        LatLon(5255164, 1339831),
        LatLon(5255082, 1339778),
        LatLon(5255020, 1339698),
        LatLon(5254985, 1339626),
        LatLon(5254958, 1339528),
        LatLon(5254940, 1339409)>>),
    PatchEntry("S Bornholmer Str. (Berlin)", "S Schönholz (Berlin)",
      <<"S1", "S25">>,
      <<LatLon(5255836, 1339735),
        LatLon(5256022, 1339682),
        LatLon(5256173, 1339612),
        LatLon(5256360, 1339447),
        LatLon(5256442, 1339347),
        LatLon(5256647, 1339008),
        LatLon(5257145, 1338111)>>),
    PatchEntry("S Storkower Str. (Berlin)", "S+U Frankfurter Allee (Berlin)",
      <<"S41", "S8", "S85">>,
      <<LatLon(5252374, 1346462),
        LatLon(5252305, 1346786),
        LatLon(5252263, 1346887),
        LatLon(5252216, 1346961),
        LatLon(5252142, 1347036),
        LatLon(5251984, 1347130),
        LatLon(5251530, 1347450),
        LatLon(5251492, 1347462)>>),
    PatchEntry("S+U Frankfurter Allee (Berlin)", "S Storkower Str. (Berlin)",
      <<"S42", "S8", "S85">>,
      <<LatLon(5251492, 1347462),
        LatLon(5251530, 1347450),
        LatLon(5251984, 1347130),
        LatLon(5252142, 1347036),
        LatLon(5252216, 1346961),
        LatLon(5252263, 1346887),
        LatLon(5252305, 1346786),
        LatLon(5252374, 1346462),
        LatLon(5252379, 1346465)>>),
    PatchEntry("S Grünbergallee (Berlin)", "S Altglienicke (Berlin)",
      <<"S85", "S9">>,
      <<LatLon(5240030, 1354587),
        LatLon(5240130, 1354844),
        LatLon(5240190, 1354952),
        LatLon(5240310, 1355127),
        LatLon(5240380, 1355181),
        LatLon(5240440, 1355260),
        LatLon(5240550, 1355467),
        LatLon(5240600, 1355634)>>),
    PatchEntry("S Altglienicke (Berlin)", "S Grünbergallee (Berlin)",
      <<"S85", "S9">>,
      <<LatLon(5240600, 1355634),
        LatLon(5240550, 1355467),
        LatLon(5240440, 1355260),
        LatLon(5240380, 1355181),
        LatLon(5240310, 1355127),
        LatLon(5240190, 1354952),
        LatLon(5240130, 1354844),
        LatLon(5240030, 1354587)>>),
    PatchEntry("S Bernau-Friedenstal", "S Bernau Bhf",
      <<"S2">>,
      <<LatLon(5267380, 1358700)>>)
  }

\* patches.get(key): the entry stored under key, if any
patchesGet(key) ==
  {e \in patches : e.stopName \o " - " \o e.nextStopName = key}

\* what getPatch returns: null or an array of LatLon
NoPatch == [null |-> TRUE, latLons |-> <<>>]
Patch(latLons) == [null |-> FALSE, latLons |-> latLons]

\* getPatch(stopName, nextStopName, lineName)
getPatchEitherWay(stopName, nextStopName, lineName) ==
  LET patch == patchesGet(stopName \o " - " \o nextStopName)
                 \cup patchesGet(nextStopName \o " - " \o stopName)
  IN IF patch = {} THEN NoPatch
     ELSE LET e == CHOOSE x \in patch : TRUE
          IN IF lineName \notin Range(e.lineNames) THEN NoPatch
             ELSE Patch(e.patchedLatLons)
getPatch(stopName, nextStopName, lineName) ==
  LET patch == patchesGet(stopName \o " - " \o nextStopName)
  IN IF patch = {} THEN NoPatch
     ELSE LET e == CHOOSE x \in patch : TRUE
          IN IF lineName \notin Range(e.lineNames) THEN NoPatch
             ELSE Patch(e.patchedLatLons)

\* ---- lookups and patched trips ----------------------------------------------

\* the stop names a lookup is made with: those of the table, a stop that has
\* no patch, a name that is itself two names joined, and the empty name
StopNames ==
  {e.stopName : e \in patches} \cup {e.nextStopName : e \in patches}
    \cup {"S Pankow (Berlin)", "S Bernau-Friedenstal - S Bernau Bhf", ""}

LineNames == (UNION {Range(e.lineNames) : e \in patches}) \cup {"U2"}

\* a trip of line lineName from stopName to nextStopName with one raw polyline
\* point between the two stops
PatchedTrip(stopName, nextStopName, lineName) ==
  [id |-> 1,
   line |-> [name |-> lineName],
   polyline |-> << [sid |-> 1, name |-> stopName, point |-> PointAt(1)],
                   [sid |-> 0, name |-> "", point |-> PointAt(2)],
                   [sid |-> 2, name |-> nextStopName, point |-> PointAt(3)] >>,
   stopovers |-> << [sid |-> 1, arrival |-> Null, departure |-> 10000, cancelled |-> FALSE],
                    [sid |-> 2, arrival |-> 30000, departure |-> Null, cancelled |-> FALSE] >>]

PatchedTrips ==
  {PatchedTrip(a, b, l) :
     a \in {"S+U Gesundbrunnen Bhf (Berlin)", "S Pankow (Berlin)"},
     b \in {"S Bornholmer Str. (Berlin)"},
     l \in {"S1", "S9"}}

InitPatch ==
  /\ SchedulerInit
  /\ payload \in PatchedTrips
  /\ trip = NewTrip(1)
  /\ pos = NoPos
  /\ IndexIdle
  /\ FetchIdle
  /\ PureIdle
  /\ ListIdle

\* getPatch(stopName, nextStopName, lineName), called once
Lookup ==
  \E stopName \in StopNames, nextStopName \in StopNames, lineName \in LineNames :
    /\ input = NoCall
    /\ input' = [fn |-> "getPatch", stopName |-> stopName,
                 nextStopName |-> nextStopName, lineName |-> lineName]
    /\ output' = [fn |-> "getPatch", patch |-> getPatch(stopName, nextStopName, lineName)]
    /\ lastOp' = Op("getPatch", NoJob, "none")
    /\ UNCHANGED <<schedvars, indexvars, fetchvars, listvars, tripvars, now>>

\* trip.setDetailedData(data) for a trip between named stops
PatchDetailed ==
  /\ ~isDetailed(trip)
  /\ trip' = setDetailedData(trip, payload, now)
  /\ lastOp' = Op("setDetailedData", NoJob, "none")
  /\ UNCHANGED <<schedvars, indexvars, fetchvars, purevars, listvars, now, payload, pos>>

NextPatch ==
  \/ Lookup
  \/ PatchDetailed

SpecPatch == InitPatch /\ [][NextPatch]_<<vars, appvars>>

\* ---- properties of the patches ----------------------------------------------

LookedUp == input.fn = "getPatch"

\* the entries written for the ordered pair (a, b) that apply to line l
EntriesFor(a, b, l) ==
  {e \in patches : e.stopName = a /\ e.nextStopName = b /\ l \in Range(e.lineNames)}

\* the name of the polyline feature that stop stp was made from
NameOf(stp) ==
  payload.polyline[CHOOSE k \in DOMAIN payload.polyline :
                     payload.polyline[k].sid = stp.id].name

\* the raw polyline points between stop stp and the next stop: the features
\* without stop id
RawPoints == {payload.polyline[k].point : k \in {j \in DOMAIN payload.polyline :
                                                   payload.polyline[j].sid = 0}}

\* C25, as stated: when getPatch returns a patch for a stop, the next stop and
\* the trip's line, the stop's segment points contain none of the raw polyline
\* points between the two stops.
C25_AsStated ==
  Applied =>
    \A i \in 1..(Len(trip.stops) - 1) :
      getPatch(NameOf(trip.stops[i]), NameOf(trip.stops[i + 1]), payload.line.name) # NoPatch
        => Range(trip.stops[i].segmentPoints) \cap RawPoints = {}

\* C26: getPatch returns the point list of the entry written for the ordered
\* pair (stopName, nextStopName) when there is one and lineName is among its
\* line names, and null otherwise; an entry for A -> B never answers a lookup
\* B -> A of two different stops.
C26_ExactLookup ==
  LookedUp =>
    LET hits == EntriesFor(input.stopName, input.nextStopName, input.lineName)
    IN /\ hits # {} => \E e \in hits : output.patch = Patch(e.patchedLatLons)
       /\ hits = {} => output.patch = NoPatch
       /\ \A e \in patches :
            /\ e.stopName = input.nextStopName /\ e.nextStopName = input.stopName
            /\ input.stopName # input.nextStopName
            => output.patch # Patch(e.patchedLatLons)

\* a lookup answered from the entry of the opposite direction's table row:
\* Bornholmer Str. -> Gesundbrunnen gets its own points, not the reverse ones
C26_Witness ==
  /\ LookedUp
  /\ input.stopName = "S Bornholmer Str. (Berlin)"
  /\ input.nextStopName = "S+U Gesundbrunnen Bhf (Berlin)"
  /\ input.lineName = "S25"
  /\ ~output.patch.null
  /\ output.patch.latLons[1] = LatLon(5255358, 1339814)


\* ==========================================================================
\* The end of a trip: Trip.arrival and Trip.isFinished.
\* ==========================================================================

MaxTicks == 12        \* how far the clock runs, in steps of 7.5 s

DefaultExtraSeconds == 15

\* get arrival(): Date.parse(this.data.arrival); NaN (undefined here) when the
\* data has no arrival
arrival(data) == IF data.arrival = Null THEN Undef ELSE data.arrival

\* isFinished(extraSeconds = 15) at Date.now() = t; an argument left out is
\* undefined.  A comparison with NaN is false.
isFinishedAtDeadline(data, extraSeconds, t) ==
  LET extra == IF extraSeconds = Undef THEN DefaultExtraSeconds ELSE extraSeconds
  IN arrival(data) # Undef /\ arrival(data) + extra * 1000 <= t
isFinished(data, extraSeconds, t) ==
  LET extra == IF extraSeconds = Undef THEN DefaultExtraSeconds ELSE extraSeconds
  IN arrival(data) # Undef /\ arrival(data) + extra * 1000 < t

\* the preliminary data a Trip is constructed with
Arrivals == {Null, 30000, 45000}
ExtraSeconds == {Undef, 0, 30}

InitFinish ==
  /\ SchedulerInit
  /\ payload \in [id : {1}, arrival : Arrivals]
  /\ trip = NewTrip(1)
  /\ pos = NoPos
  /\ IndexIdle
  /\ FetchIdle
  /\ PureIdle
  /\ ListIdle

\* Date.now() moves on: to the next multiple of 7.5 s or one millisecond past
\* the present one
FinishClock ==
  /\ now < 7500 * MaxTicks
  /\ \E t \in {7500 * (now \div 7500) + 1, 7500 * ((now \div 7500) + 1)} :
       t > now /\ now' = t
  /\ lastOp' = Op("advance", NoJob, "none")
  /\ UNCHANGED <<rqvars, inflight, nextJob, sched, renewal, appvars>>

\* animate(): trip.isFinished(), or isFinished(extraSeconds)
IsFinished ==
  \E extraSeconds \in ExtraSeconds :
    /\ input' = [fn |-> "isFinished", extraSeconds |-> extraSeconds, at |-> now]
    /\ output' = [fn |-> "isFinished", finished |-> isFinished(payload, extraSeconds, now)]
    /\ lastOp' = Op("isFinished", NoJob, "none")
    /\ UNCHANGED <<schedvars, indexvars, fetchvars, listvars, tripvars, now>>

NextFinish ==
  \/ FinishClock
  \/ IsFinished

SpecFinish == InitFinish /\ [][NextFinish]_<<vars, appvars>>

\* the grace period of the last call, in milliseconds
Grace == 1000 * (IF input.extraSeconds = Undef THEN 15 ELSE input.extraSeconds)

\* C27: isFinished is true exactly when now is later than the trip's arrival
\* plus the grace period (15 s when none is given), and never for a trip
\* without arrival; with the same data and grace period a call that follows a
\* true answer answers true.
C27_FinishedAfterGrace ==
  /\ [](input.fn = "isFinished" =>
          (output.finished <=>
             payload.arrival # Null /\ input.at > payload.arrival + Grace))
  /\ [][/\ input.fn = "isFinished" /\ input'.fn = "isFinished"
        /\ input'.extraSeconds = input.extraSeconds
        /\ output.finished
        => output'.finished]_<<vars, appvars>>

\* asked with the default grace period one millisecond after arrival + 15 s:
\* the first instant at which the answer is true
C27_Witness ==
  /\ input.fn = "isFinished" /\ input.extraSeconds = Undef
  /\ payload.arrival # Null
  /\ input.at = payload.arrival + 15000 + 1
  /\ output.finished


\* ==========================================================================
\* The projection: getPointFromLatLon and getLatLonFromPoint.
\* ==========================================================================

MaxDeg == 3           \* positions up to this many hundredths of a degree from the origin

\* p * q, p / q, p + q and p - q for finite fractions, reduced before the
\* products are formed
mul(p, q) ==
  LET a == Frac(p.n, q.d)
      b == Frac(q.n, p.d)
  IN Frac(a.n * b.n, a.d * b.d)
quot(p, q) == mul(p, Frac(q.d, q.n))
plus(p, q) ==
  LET l == (p.d \div GCD(p.d, q.d)) * q.d
  IN Frac(p.n * (l \div p.d) + q.n * (l \div q.d), l)
diff(p, q) == plus(p, Frac(0 - q.n, q.d))

\* const METERS_PER_DEG = 40074000 / 360
METERS_PER_DEG == Frac(40074000, 360)

\* the origins of the model: the default one, one on the equator, one at 60 N
Origins ==
  { [lat |-> Frac(52519170, 1000000), lon |-> Frac(13409606, 1000000)],
    [lat |-> Frac(0, 1), lon |-> Frac(0, 1)],
    [lat |-> Frac(60, 1), lon |-> Frac(10, 1)] }

\* Math.cos(originLat / 180 * Math.PI) for the origins of the model, to four
\* decimals
lonScale(originLat) ==
  IF originLat = Frac(0, 1) THEN Frac(1, 1)
  ELSE IF originLat = Frac(60, 1) THEN Frac(1, 2)
  ELSE Frac(6085, 10000)

\* getPointFromLatLon(lat, lon, originLat, originLon)
getPointFromLatLon(lat, lon, originLat, originLon) ==
  [x |-> mul(mul(diff(lon, originLon), METERS_PER_DEG), lonScale(originLat)),
   y |-> mul(diff(lat, originLat), METERS_PER_DEG)]

\* getLatLonFromPoint(x, y, originLat, originLon)
getLatLonFromPointNoScale(x, y, originLat, originLon) ==
  [lat |-> plus(quot(y, METERS_PER_DEG), originLat),
   lon |-> plus(quot(x, METERS_PER_DEG), originLon)]
getLatLonFromPoint(x, y, originLat, originLon) ==
  [lat |-> plus(quot(y, METERS_PER_DEG), originLat),
   lon |-> plus(quot(x, mul(METERS_PER_DEG, lonScale(originLat))), originLon)]

\* the positions given: on a grid of hundredths of a degree around the origin
Offsets == {Frac(i, 100) : i \in (0 - MaxDeg)..MaxDeg}

InitGeo ==
  /\ SchedulerInit
  /\ TripIdle
  /\ IndexIdle
  /\ FetchIdle
  /\ PureIdle
  /\ ListIdle

\* getPointFromLatLon(lat, lon) with the origin o
Project ==
  \E o \in Origins, dlat \in Offsets, dlon \in Offsets :
    LET lat == plus(o.lat, dlat)
        lon == plus(o.lon, dlon)
    IN /\ input = NoCall
       /\ input' = [fn |-> "getPointFromLatLon", lat |-> lat, lon |-> lon, origin |-> o]
       /\ output' = [fn |-> "getPointFromLatLon",
                     point |-> getPointFromLatLon(lat, lon, o.lat, o.lon)]
       /\ lastOp' = Op("getPointFromLatLon", NoJob, "none")
       /\ UNCHANGED <<schedvars, indexvars, fetchvars, listvars, tripvars, now>>

\* getLatLonFromPoint(point.x, point.y) for the point just computed, with the
\* same origin
Unproject ==
  /\ output.fn = "getPointFromLatLon"
  /\ output' = [fn |-> "getLatLonFromPoint",
                latLon |-> getLatLonFromPoint(output.point.x, output.point.y,
                                              input.origin.lat, input.origin.lon)]
  /\ lastOp' = Op("getLatLonFromPoint", NoJob, "none")
  /\ UNCHANGED <<schedvars, indexvars, fetchvars, listvars, tripvars, now, input>>

NextGeo ==
  \/ Project
  \/ Unproject

SpecGeo == InitGeo /\ [][NextGeo]_<<vars, appvars>>

\* |p - q| <= 0.000001
Within1e6(p, q) ==
  LET d == diff(p, q)
  IN Abs(d.n) * 1000000 <= d.d

\* C29: a position projected to a point and projected back with the same
\* origin is the position again, within 0.000001 degrees in latitude and in
\* longitude.
C29_RoundTrip ==
  output.fn = "getLatLonFromPoint" =>
    /\ Within1e6(output.latLon.lat, input.lat)
    /\ Within1e6(output.latLon.lon, input.lon)

\* a position east and north of the default origin has come back
C29_Witness ==
  /\ output.fn = "getLatLonFromPoint"
  /\ input.origin.lat = Frac(52519170, 1000000)
  /\ input.lat = Frac(52539170, 1000000)
  /\ input.lon = Frac(13439606, 1000000)
  /\ output.latLon = [lat |-> input.lat, lon |-> input.lon]


\* ==========================================================================
\* Detail fetches: fetchTripDetails, updateRequestQueue and performTripRequest
\* on the request queue, with the trip id of every job.
\* ==========================================================================

\* the job () => performTripRequest(id, tripCallback); src tells who made it
FetchJob(id, src) == [n |-> 0, src |-> src, id |-> id]

\* ids.map(...) for a list of distinct trip ids
IdLists ==
  {ids \in UNION {[1..n -> TripIds] : n \in 0..Cardinality(TripIds)} :
     \A i, j \in DOMAIN ids : ids[i] = ids[j] => i = j}

\* what response.json() makes of the body: the trip of a 200, an error object
\* without trip, or a rejection for a body that is not JSON
BodiesOf(status) ==
  IF status = 200 THEN {"trip"} ELSE IF status = 304 THEN {"empty"} ELSE {"error", "text"}

Call(id, data) == [id |-> id, data |-> data]

\* the tripCallback calls performTripRequest makes for a response
tripCallbacksSilent304(id, status, body) ==
  IF status = 304 \/ body \in {"text", "empty"} THEN <<>>
  ELSE <<Call(id, IF body = "trip" THEN "trip" ELSE "undefined")>>
tripCallbacks(id, status, body) ==
  IF status = 304 THEN <<Call(id, "notModified")>>
  ELSE IF body \in {"text", "empty"} THEN <<>>
  ELSE <<Call(id, IF body = "trip" THEN "trip" ELSE "undefined")>>

InitFetch ==
  /\ SchedulerInit
  /\ TripIdle
  /\ IndexIdle
  /\ FetchIdle
  /\ PureIdle
  /\ ListIdle

FetchElapse ==
  /\ Elapse
  /\ calls' = <<>>
  /\ UNCHANGED <<tripvars, indexvars, purevars, listvars, fetches>>

\* a tick; the job it starts sends its request
FetchFire ==
  /\ Fire
  /\ fetches' = IF lastOp'.job = NoJob THEN fetches
                ELSE [fetches EXCEPT ![lastOp'.job.id] = @ + 1]
  /\ calls' = <<>>
  /\ UNCHANGED <<tripvars, indexvars, purevars, listvars>>

\* fetchTripDetails(id, cb)
EnqueueFetch ==
  \E id \in TripIds :
    /\ Len(queue) + inflight < MaxJobs
    /\ Becomes(add(Self, FetchJob(id, "add"), now))
    /\ lastOp' = Op("add", NoJob, "none")
    /\ calls' = <<>>
    /\ UNCHANGED <<now, inflight, nextJob, sched, renewal, tripvars, indexvars, purevars, listvars, fetches>>

\* updateRequestQueue(ids, cb)
ReplaceFetches ==
  \E ids \in IdLists :
    /\ Len(ids) + inflight <= MaxJobs
    /\ Becomes(setQueue(Self, [i \in DOMAIN ids |-> FetchJob(ids[i], "set")], now))
    /\ lastOp' = Op("setQueue", NoJob, "none")
    /\ calls' = <<>>
    /\ UNCHANGED <<now, inflight, nextJob, sched, renewal, tripvars, indexvars, purevars, listvars, fetches>>

\* burst()
FetchBurst ==
  /\ Becomes(burst(Self, DefaultBurstInterval, DefaultBurstDuration, now))
  /\ lastOp' = Op("burst", NoJob, "none")
  /\ calls' = <<>>
  /\ UNCHANGED <<now, inflight, nextJob, sched, renewal, tripvars, indexvars, purevars, listvars, fetches>>

\* performTripRequest(id, tripCallback) after "await fetch(url)": status 500
\* backs off and enqueues the request again, and whatever the status was the
\* response is then handed on.
FetchRespond ==
  \E id \in TripIds, status \in Statuses :
    \E body \in BodiesOf(status) :
      /\ fetches[id] > 0
      /\ fetches' = [fetches EXCEPT ![id] = @ - 1]
      /\ inflight' = inflight - 1
      /\ IF status = 500
         THEN Becomes(add(backoff(Self, DefaultBackoff, now), FetchJob(id, "retry"), now))
         ELSE UNCHANGED rqvars
      /\ calls' = tripCallbacks(id, status, body)
      /\ lastOp' = Op("response", FetchJob(id, "fetch"), status)
      /\ UNCHANGED <<now, nextJob, sched, renewal, tripvars, indexvars, purevars, listvars>>

NextFetch ==
  \/ FetchElapse
  \/ FetchFire
  \/ EnqueueFetch
  \/ ReplaceFetches
  \/ FetchBurst
  \/ FetchRespond

SpecFetch == InitFetch /\ [][NextFetch]_<<vars, appvars>>

\* ---- properties of the detail fetches -------------------------------------

Responded == lastOp.op = "response"
ServerErrors == {status \in Statuses : status >= 500 /\ status < 600}

\* C11, as stated: a response of any 5xx status makes the job call backoff
\* with the default duration and enqueue a job for the same trip id, which is
\* then the next one the queue starts.
C11_AsStated ==
  [][lastOp'.op = "response" /\ lastOp'.note \in ServerErrors
       => /\ backoffTimestamp' = now /\ backoffDuration' = DefaultBackoff
          /\ Len(queue') = Len(queue) + 1
          /\ queue'[Len(queue')].id = lastOp'.job.id]_<<vars, appvars>>

\* C12: a fetch answered with 200 or 304 runs the trip callback exactly once,
\* with the id of its job, and with the payload on 200 and the not-modified
\* marker on 304.
C12_CallbackOnce ==
  Responded /\ lastOp.note \in {200, 304}
    => calls = <<Call(lastOp.job.id, IF lastOp.note = 200 THEN "trip" ELSE "notModified")>>

\* a fetch is answered with 304 after another one was answered with 500
C12_Witness ==
  /\ Responded /\ lastOp.note = 304
  /\ calls = <<Call(lastOp.job.id, "notModified")>>
  /\ backoffTimestamp # Null

\* C30, as stated: a fetch answered with a failure status (5xx) is handled by
\* backoff and re-enqueue only: the trip callback is not run for that
\* response.
C30_AsStated ==
  Responded /\ lastOp.note \in ServerErrors => calls = <<>>


\* ==========================================================================
\* Detail fetches over a longer time: a failed request backs off, is enqueued
\* again and is started again after the window, while the driver goes on
\* calling fetchTripDetails and updateRequestQueue.
\* ==========================================================================

MaxClock == 6         \* the clock of the retries runs to MaxClock

\* History kept in sched: the trip ids the driver has named since its last
\* updateRequestQueue call (that call's list and the ids of the
\* fetchTripDetails calls after it), and whether there was such a call.
Naming(named, replaced) ==
  [base |-> 0, len |-> 0, ran |-> 0, clean |-> FALSE, discarded |-> FALSE,
   named |-> named, replaced |-> replaced]

Named == IF "named" \in DOMAIN sched THEN sched.named ELSE {}
Replaced == "replaced" \in DOMAIN sched /\ sched.replaced

RetryElapse ==
  /\ now < MaxClock
  /\ \A x \in timers : x.due > now
  /\ now' = now + 1
  /\ lastOp' = Op("advance", NoJob, "none")
  /\ calls' = <<>>
  /\ UNCHANGED <<rqvars, inflight, nextJob, sched, renewal, tripvars, indexvars, purevars, listvars, fetches>>

\* fetchTripDetails(id, cb)
RetryEnqueue ==
  \E id \in TripIds :
    /\ Len(queue) + inflight < MaxJobs
    /\ Becomes(add(Self, FetchJob(id, "add"), now))
    /\ sched' = Naming(Named \cup {id}, Replaced)
    /\ lastOp' = Op("add", NoJob, "none")
    /\ calls' = <<>>
    /\ UNCHANGED <<now, inflight, nextJob, renewal, tripvars, indexvars, purevars, listvars, fetches>>

\* updateRequestQueue(ids, cb)
RetryReplace ==
  \E ids \in IdLists :
    /\ Len(ids) + inflight <= MaxJobs
    /\ Becomes(setQueue(Self, [i \in DOMAIN ids |-> FetchJob(ids[i], "set")], now))
    /\ sched' = Naming(Range(ids), TRUE)
    /\ lastOp' = Op("setQueue", NoJob, "none")
    /\ calls' = <<>>
    /\ UNCHANGED <<now, inflight, nextJob, renewal, tripvars, indexvars, purevars, listvars, fetches>>

NextRetry ==
  \/ RetryElapse
  \/ FetchFire
  \/ RetryEnqueue
  \/ RetryReplace
  \/ FetchRespond

SpecRetry == InitFetch /\ [][NextRetry]_<<vars, appvars>>

\* ---- properties of the retries ------------------------------------------------

\* the job the next tick outside a backoff window starts
Top == queue[Len(queue)]

\* C36, as stated: while a job enqueued again by a failed request waits (no
\* updateRequestQueue call has discarded it), a tick that starts a job starts
\* such a job: nothing else is started before it.
C36_AsStated ==
  [][IsTick' /\ Started' # NoJob /\ (\E k \in DOMAIN queue : queue[k].src = "retry")
       => Started'.src = "retry"]_<<vars, appvars>>

\* C36: a failed request opens a backoff window and puts its job at the head
\* of the execution order; while it is at the head, a tick inside the window
\* starts nothing and the first tick after the window starts it, ahead of every
\* job that waited before the failure.  Only jobs enqueued later, by
\* fetchTripDetails or by another failed request, are ever ahead of it, and
\* updateRequestQueue discards it.
C36_RetryIsNext ==
  /\ [](\A k, m \in DOMAIN queue :
          k < m /\ queue[k].src = "retry" => queue[m].src \in {"add", "retry"})
  /\ [][lastOp'.op = "response" /\ lastOp'.note = 500 =>
          /\ queue' = Append(queue, FetchJob(lastOp'.job.id, "retry"))
          /\ backoffTimestamp' = now /\ backoffDuration' = DefaultBackoff
       ]_<<vars, appvars>>
  /\ [][IsTick' /\ queue # <<>> /\ Top.src = "retry" =>
          IF WindowOpen(now)
          THEN Started' = NoJob /\ queue' = queue
          ELSE /\ Started' = Top
               /\ queue' = SubSeq(queue, 1, Len(queue) - 1)
               /\ backoffTimestamp' = Null
       ]_<<vars, appvars>>

\* C36 witness: the first tick after the window has started the job of the
\* failed request while a job that waited before the failure still waits.
C36_Witness ==
  /\ IsTick /\ Started.src = "retry"
  /\ backoffTimestamp = Null
  /\ queue # <<>>
  /\ \A k \in DOMAIN queue : queue[k].src \in {"add", "set"}

\* C37, as stated: after an updateRequestQueue call, every request a tick
\* issues is for a trip id the driver has named in that call or in a
\* fetchTripDetails call since, also when a request for another id was in
\* flight at the call and failed later.
C37_AsStated ==
  Replaced /\ IsTick /\ Started # NoJob => Started.id \in Named


\* ==========================================================================
\* The segment walk on its own: getSegmentLength of a stop as setDetailedData
\* computes it, then the loop of getCurrentPositionDetailed for a progress
\* value, for stops whose segment points lie anywhere on a small grid.
\* ==========================================================================

MaxWalk == 2          \* segment points of a stop

\* points 300 m and 400 m apart: every distance between two of them is whole
GridPoints == {[x |-> x, y |-> y] : x \in {0, 300}, y \in {0, 400}}

\* the segment points of a stop that is not the last: at least the next stop's
\* point
PointLists == UNION {[1..n -> GridPoints] : n \in 1..MaxWalk}

\* segmentProgress values in (0, 1]
Progresses == {Frac(k, 8) : k \in 1..8}

InitWalk ==
  /\ SchedulerInit
  /\ TripIdle
  /\ IndexIdle
  /\ FetchIdle
  /\ PureIdle
  /\ ListIdle

\* stops.forEach(stop => { stop.segmentLength = getSegmentLength(stop); })
MeasureSegment ==
  \E p \in GridPoints, points \in PointLists :
    LET stp == [point |-> p, segmentPoints |-> points]
    IN /\ input = NoCall
       /\ input' = [fn |-> "getSegmentLength",
                    stop |-> [point |-> p, segmentPoints |-> points,
                              segmentLength |-> getSegmentLength(stp)]]
       /\ lastOp' = Op("getSegmentLength", NoJob, "none")
       /\ UNCHANGED <<schedvars, indexvars, fetchvars, listvars, tripvars, now, output>>

\* "Find position along segment points" for the stop just measured
WalkSegment ==
  \E progress \in Progresses :
    /\ input.fn = "getSegmentLength"
    /\ output = NoCall
    /\ output' = [fn |-> "walk", progress |-> progress,
                  res |-> walk(input.stop.segmentPoints, 1,
                               times(progress, input.stop.segmentLength),
                               input.stop.point)]
    /\ lastOp' = Op("walk", NoJob, "none")
    /\ UNCHANGED <<schedvars, indexvars, fetchvars, listvars, tripvars, now, input>>

NextWalk ==
  \/ MeasureSegment
  \/ WalkSegment

SpecWalk == InitWalk /\ [][NextWalk]_<<vars, appvars>>

\* ---- properties of the segment walk ---------------------------------------------

Walks == output.fn = "walk"

\* the length of the path from the stop's point to its i-th segment point
Covered(stp, i) == pathLength(stp.point, SubSeq(stp.segmentPoints, 1, i))

\* the first sub-segment whose end is at least dist along the path
Containing(stp, dist) ==
  CHOOSE i \in DOMAIN stp.segmentPoints :
    /\ atMost(dist, Covered(stp, i))
    /\ \A j \in 1..(i - 1) : ~atMost(dist, Covered(stp, j))

\* pt lies within the rectangle spanned by a and b
Between(pt, a, b) ==
  /\ Min(a.x, b.x) <= pt.x /\ pt.x <= a.x + b.x - Min(a.x, b.x)
  /\ Min(a.y, b.y) <= pt.y /\ pt.y <= a.y + b.y - Min(a.y, b.y)

\* pt is a point of the i-th sub-segment of the stop
OnSubSegment(pt, stp, i) ==
  /\ pt # NaP
  /\ Between(pt, IF i = 1 THEN stp.point ELSE stp.segmentPoints[i - 1], stp.segmentPoints[i])

\* C38, as stated: for a stop whose segmentLength is the sum of the distances
\* between its consecutive segment points and a progress in (0, 1], the walk
\* returns from inside the loop, and the point it returns lies on the
\* sub-segment that contains the target distance.
C38_AsStated ==
  Walks =>
    /\ output.res.kind = "segment"
    /\ OnSubSegment(output.res.point, input.stop,
                    Containing(input.stop, times(output.progress, input.stop.segmentLength)))


\* ==========================================================================
\* Routes of up to three stops whose stopover list may lack some of the stops
\* of the polyline: setDetailedData, then getRoutePoints.
\* ==========================================================================

MaxRoute == 4         \* features of a route's polyline

RouteStopIds == {1, 2, 3}

\* the stop ids of a polyline; the stops come in the order 1, 2, 3
InOrder(f) ==
  \A i, j \in DOMAIN f : i < j /\ f[i] # 0 /\ f[j] # 0 => f[i] <= f[j]

RoutePolylines ==
  UNION {{[i \in 1..n |-> [sid |-> f[i], point |-> PointAt(i)]] :
            f \in {g \in [1..n -> {0} \cup RouteStopIds] : InOrder(g)}} :
         n \in 1..MaxRoute}

\* the stopover of stop id: it arrives at id * 30 s and leaves 10 s later
RouteStopover(id) ==
  [sid |-> id, arrival |-> 30000 * id, departure |-> 30000 * id + 10000, cancelled |-> FALSE]

\* the stopovers of the stops in served, in the order of the route
RECURSIVE RouteStopovers(_, _)
RouteStopovers(served, id) ==
  IF id > Cardinality(RouteStopIds) THEN <<>>
  ELSE (IF id \in served THEN <<RouteStopover(id)>> ELSE <<>>)
         \o RouteStopovers(served, id + 1)

Routes ==
  {[id |-> 1, polyline |-> f, stopovers |-> RouteStopovers(served, 1)] :
     f \in RoutePolylines, served \in SUBSET RouteStopIds}

\* getRoutePoints(): the first stop's point, then every stop's segment points;
\* without stops the read of this.stops[0].point throws
RECURSIVE segmentPointsOf(_)
segmentPointsOf(stops) ==
  IF stops = <<>> THEN <<>>
  ELSE Head(stops).segmentPoints \o segmentPointsOf(Tail(stops))

getRoutePoints(tr) ==
  IF tr.stops = <<>> THEN [threw |-> TRUE, points |-> <<>>]
  ELSE [threw |-> FALSE, points |-> <<tr.stops[1].point>> \o segmentPointsOf(tr.stops)]

InitRoute ==
  /\ SchedulerInit
  /\ payload \in Routes
  /\ trip = NewTrip(1)
  /\ pos = NoPos
  /\ IndexIdle
  /\ FetchIdle
  /\ PureIdle
  /\ ListIdle

\* trip.setDetailedData(data)
RouteDetailed ==
  /\ ~isDetailed(trip)
  /\ trip' = setDetailedData(trip, payload, now)
  /\ lastOp' = Op("setDetailedData", NoJob, "none")
  /\ UNCHANGED <<schedvars, indexvars, purevars, listvars, fetchvars, now, payload, pos>>

\* trip.getRoutePoints(), when the route is drawn
RouteDrawn ==
  /\ isDetailed(trip)
  /\ output = NoCall
  /\ output' = [fn |-> "getRoutePoints", route |-> getRoutePoints(trip)]
  /\ lastOp' = Op("getRoutePoints", NoJob, "none")
  /\ UNCHANGED <<schedvars, indexvars, fetchvars, listvars, tripvars, now, input>>

NextRoute ==
  \/ RouteDetailed
  \/ RouteDrawn

SpecRoute == InitRoute /\ [][NextRoute]_<<vars, appvars>>

\* ---- properties of the routes ---------------------------------------------------

\* C39, as stated: after setDetailedData, for every pair of adjacent stops of
\* the stop sequence the earlier stop has segment points and its last segment
\* point is the later stop's point, also when stops of the polyline between
\* them were discarded.
C39_AsStated ==
  Applied =>
    \A i \in 1..(Len(trip.stops) - 1) :
      LET points == trip.stops[i].segmentPoints
      IN points # <<>> /\ points[Len(points)] = trip.stops[i + 1].point


\* ==========================================================================
\* fetchAllTrips: seven listing requests sent at once, each answered on its
\* own; the callback of an answered request hands its trips on and counts.
\* ==========================================================================

MaxList == 1          \* trips of one listing

\* what a listing request can be answered with: a list of trips (response.ok),
\* the error body of an empty result, or any other error
Answers ==
  {[ok |-> TRUE, hafasCode |-> "none", trips |-> n] : n \in 0..MaxList}
    \cup {[ok |-> FALSE, hafasCode |-> c, trips |-> 0] : c \in {"NO_MATCH", "TOO_MANY"}}

\* fetchAllTripsFromUrl(url): the trips the promise resolves with (their
\* number), or a rejection
fetchAllTripsFromUrl(answer) ==
  IF answer.ok THEN [rejected |-> FALSE, trips |-> answer.trips]
  ELSE IF answer.hafasCode = "NO_MATCH" THEN [rejected |-> FALSE, trips |-> 0]
  ELSE [rejected |-> TRUE, trips |-> 0]

\* the callback passed to then(), for request i resolved with n trips:
\* trips.forEach(tripCallback); numFinishedRequests++;
\* if (numFinishedRequests == numRequests) { finishedCallback(); }
onTripsFinishAlways(l, i, n) ==
  [l EXCEPT !.requests[i] = "listed",
            !.received[i] = n,
            !.tripCalls = @ + n,
            !.numFinishedRequests = @ + 1,
            !.finishedCalls = @ + 1]
onTrips(l, i, n) ==
  [l EXCEPT !.requests[i] = "listed",
            !.received[i] = n,
            !.tripCalls = @ + n,
            !.numFinishedRequests = @ + 1,
            !.finishedCalls = IF l.numFinishedRequests + 1 = numRequests THEN @ + 1 ELSE @]

InitListing ==
  /\ SchedulerInit
  /\ TripIdle
  /\ IndexIdle
  /\ FetchIdle
  /\ PureIdle
  /\ ListIdle

\* fetchAllTrips(tripCallback, finishedCallback): urls.forEach sends every
\* request before any answer is handled
FetchAllTrips ==
  /\ listing = NoListing
  /\ listing' = [NoListing EXCEPT !.requests = [i \in 1..numRequests |-> "pending"]]
  /\ lastOp' = Op("fetchAllTrips", NoJob, "none")
  /\ UNCHANGED <<schedvars, indexvars, fetchvars, purevars, tripvars, now>>

\* request i is answered: the promise of fetchAllTripsFromUrl settles, and when
\* it resolves the callback passed to then() runs
Listed(i) ==
  \E answer \in Answers :
    LET r == fetchAllTripsFromUrl(answer)
    IN /\ listing.requests[i] = "pending"
       /\ listing' = IF r.rejected THEN [listing EXCEPT !.requests[i] = "rejected"]
                     ELSE onTrips(listing, i, r.trips)
       /\ lastOp' = Op("listed", NoJob, IF r.rejected THEN "rejected" ELSE "resolved")
       /\ UNCHANGED <<schedvars, indexvars, fetchvars, purevars, tripvars, now>>

NextListing ==
  \/ FetchAllTrips
  \/ \E i \in 1..numRequests : Listed(i)

\* every request that was sent is answered at some time
SpecListing ==
  /\ InitListing
  /\ [][NextListing]_<<vars, appvars>>
  /\ \A i \in 1..numRequests : WF_<<vars, appvars>>(Listed(i))

\* ---- properties of fetchAllTrips ------------------------------------------------

RECURSIVE Sum(_, _)
Sum(f, n) == IF n = 0 THEN 0 ELSE f[n] + Sum(f, n - 1)

AllListed == \A i \in 1..numRequests : listing.requests[i] = "listed"
SomeRejected == \E i \in 1..numRequests : listing.requests[i] = "rejected"
Finished == listing.finishedCalls > 0
Called == listing # NoListing

\* C40: finishedCallback is called at most once, and when it has been called
\* all seven requests are answered and every trip of every list has been
\* passed to tripCallback; the trip callbacks run as the lists arrive; and
\* once fetchAllTrips is called, finishedCallback is called in the end unless
\* a request fails.  NO_MATCH counts as an empty list.
C40_FinishedOnce ==
  /\ [](/\ listing.finishedCalls <= 1
        /\ Finished => AllListed
        /\ listing.tripCalls = Sum(listing.received, numRequests)
        /\ Finished <=> listing.numFinishedRequests = numRequests)
  /\ [][Finished => listing' = listing]_<<vars, appvars>>
  /\ Called ~> (Finished \/ SomeRejected)

\* C40 witness: finishedCallback has run after seven answers, an empty list,
\* a NO_MATCH and lists with trips among them.
C40_Witness ==
  /\ listing.finishedCalls = 1 /\ AllListed
  /\ lastOp.op = "listed"
  /\ listing.tripCalls > 0 /\ listing.tripCalls < numRequests

====
